---------------------------- MODULE Spec2Model ----------------------------
(***************************************************************************)
(* Diagram editor: the tool server's diagram and arrow router              *)
(* (mcp-server/src/index.ts) and the editor's State and History            *)
(* (src/core/State.ts, src/core/History.ts).                               *)
(*                                                                         *)
(* Elements are records whose DOMAIN is the set of fields the JavaScript   *)
(* object has; a field the object lacks is a field outside DOMAIN.  Only   *)
(* the fields the operations below read are kept: id, type, x, y, width,   *)
(* height for shapes and id, type, from, fromAnchor, to, toAnchor,         *)
(* waypoints, style, startMarker, endMarker for arrows.  Coordinates are   *)
(* integers and widths and heights are even, so that the anchor points     *)
(* (x + width / 2) are integers too.                                       *)
(***************************************************************************)
EXTENDS Integers, Sequences, FiniteSets, TLC

VARIABLES
    diagram,        \* index.ts: let diagram = { elements, canvasSize }
    idCounter,      \* index.ts: let idCounter
    now,            \* the clock Date.now() reads, in the server and in the editor
    reply,          \* what the last tool call or HTTP request answered
    route,          \* the last call of a function of the router and its result
    elements,       \* State.elements (a Map: a sequence in insertion order)
    selectedIds,    \* State.selectedIds
    canvasSize,     \* State.canvasSize
    clipboard,      \* State.clipboard
    undoStack,      \* History.undoStack
    redoStack,      \* History.redoStack
    stateIdCounter, \* State.idCounter
    outcome,        \* what the last State operation returned
    heap,           \* the Maps, elements, arrays and points of State and
                    \* History as objects with an identity
    dragState,      \* SessionManager.dragState: the drag the mouse is in
    mcpClient,      \* the fields of MCPClient, its WebSocket, and the messages
                    \* and requests between it and the server
    wsServer,       \* index.ts: wss, autoShutdownTimer, wsClients
    session         \* State.sessionId, the timers of SessionManager and the
                    \* sessions it has saved

serverVars == <<diagram, idCounter, reply>>
editorVars == <<elements, selectedIds, canvasSize, clipboard, undoStack,
                redoStack, stateIdCounter, outcome>>
vars == <<diagram, idCounter, now, reply, route, elements, selectedIds,
          canvasSize, clipboard, undoStack, redoStack, stateIdCounter, outcome,
          heap, dragState, mcpClient, wsServer, session>>
linkVars == <<mcpClient, wsServer, session>>

-----------------------------------------------------------------------------
(* Small helpers                                                           *)

Has(el, f) == f \in DOMAIN el

MinOf(S) == CHOOSE m \in S : \A v \in S : m <= v
MaxOf(S) == CHOOSE m \in S : \A v \in S : m >= v
Abs(n) == IF n < 0 THEN -n ELSE n
Range(s) == {s[i] : i \in 1..Len(s)}

Pt(px, py) == [x |-> px, y |-> py]

Anchors == <<"top", "bottom", "left", "right">>
AnchorSet == Range(Anchors)

\* (el as any).width || 100: an absent or zero width takes the default
DefaultWidth == 100
DefaultHeight == 80
WidthOf(el) == IF Has(el, "width") /\ el.width # 0 THEN el.width ELSE DefaultWidth
HeightOf(el) == IF Has(el, "height") /\ el.height # 0 THEN el.height ELSE DefaultHeight

-----------------------------------------------------------------------------
(* Geometry of the router                                                  *)

GetAnchorPoint(element, anchor) ==
    LET width == WidthOf(element)
        height == HeightOf(element)
    IN CASE anchor = "top" -> Pt(element.x + width \div 2, element.y)
         [] anchor = "bottom" -> Pt(element.x + width \div 2, element.y + height)
         [] anchor = "left" -> Pt(element.x, element.y + height \div 2)
         [] anchor = "right" -> Pt(element.x + width, element.y + height \div 2)

\* mutant: 0 < n / d < 1
InUnitOpen(n, d) == IF d > 0 THEN 0 < n /\ n < d ELSE d < n /\ n < 0

\* 0 <= n / d <= 1 for d # 0, without dividing
InUnit(n, d) == IF d > 0 THEN 0 <= n /\ n <= d ELSE d <= n /\ n <= 0

LineIntersectsLine(a1, a2, b1, b2) ==
    LET det == (a2.x - a1.x) * (b2.y - b1.y) - (b2.x - b1.x) * (a2.y - a1.y)
        lambdaNum == (b2.y - b1.y) * (b2.x - a1.x) + (b1.x - b2.x) * (b2.y - a1.y)
        gammaNum == (a1.y - a2.y) * (b2.x - a1.x) + (a2.x - a1.x) * (b2.y - a1.y)
    IN det # 0 /\ InUnit(lambdaNum, det) /\ InUnit(gammaNum, det)

\* mutant: only the bounding box of the segment is tested against the rectangle
LineIntersectsRectBoxOnly(p1, p2, rect, padding) ==
    LET left == rect.x - padding
        right == rect.x + rect.width + padding
        top == rect.y - padding
        bottom == rect.y + rect.height + padding
    IN ~((p1.x < left /\ p2.x < left) \/ (p1.x > right /\ p2.x > right))
       /\ ~((p1.y < top /\ p2.y < top) \/ (p1.y > bottom /\ p2.y > bottom))

LineIntersectsRect(p1, p2, rect, padding) ==
    LET left == rect.x - padding
        right == rect.x + rect.width + padding
        top == rect.y - padding
        bottom == rect.y + rect.height + padding
        pointInRect(p) == p.x >= left /\ p.x <= right /\ p.y >= top /\ p.y <= bottom
        edges == << <<Pt(left, top), Pt(right, top)>>,
                    <<Pt(right, top), Pt(right, bottom)>>,
                    <<Pt(right, bottom), Pt(left, bottom)>>,
                    <<Pt(left, bottom), Pt(left, top)>> >>
    IN IF (p1.x < left /\ p2.x < left) \/ (p1.x > right /\ p2.x > right) THEN FALSE
       ELSE IF (p1.y < top /\ p2.y < top) \/ (p1.y > bottom /\ p2.y > bottom) THEN FALSE
       ELSE IF pointInRect(p1) \/ pointInRect(p2) THEN TRUE
       ELSE \E i \in 1..4 : LineIntersectsLine(p1, p2, edges[i][1], edges[i][2])

\* getObstacleBounds reads the global diagram: els is diagram.elements
GetObstacleBounds(els, excludeIds) ==
    LET isObstacle(el) == el.type # "arrow" /\ el.type # "zone" /\ el.id \notin excludeIds
        bounds(el) == [id |-> el.id, x |-> el.x, y |-> el.y,
                       width |-> WidthOf(el), height |-> HeightOf(el)]
        kept == SelectSeq(els, isObstacle)
    IN [i \in 1..Len(kept) |-> bounds(kept[i])]

\* Math.hypot(a.x - b.x, a.y - b.y) < 10, on the squares
TooClose(a, b) == (a.x - b.x) * (a.x - b.x) + (a.y - b.y) * (a.y - b.y) < 100

CleanupWaypoints(waypoints, from, to) ==
    IF Len(waypoints) = 0 THEN <<>>
    ELSE
      LET allPoints == <<from>> \o waypoints \o <<to>>
          keep(i) ==
            LET prev == allPoints[i - 1]
                curr == allPoints[i]
                next == allPoints[i + 1]
                cross == (curr.x - prev.x) * (next.y - prev.y)
                         - (curr.y - prev.y) * (next.x - prev.x)
            IN ~(TooClose(curr, prev) \/ TooClose(curr, next)) /\ ~(Abs(cross) < 1)
          idx == SelectSeq([k \in 1..Len(waypoints) |-> k + 1], keep)
      IN [k \in 1..Len(idx) |-> allPoints[idx[k]]]

-----------------------------------------------------------------------------
(* The router: calculateAutoWaypoints                                      *)

DirectPadding == 30
PathPadding == 25
Margin == 50
SafeMargin == 60

IsHorizontal(anchor) == anchor = "left" \/ anchor = "right"

\* isPathClear, for the obstacle list of the call
IsPathClear(obstacles, p1, p2) ==
    ~\E i \in 1..Len(obstacles) : LineIntersectsRect(p1, p2, obstacles[i], PathPadding)

\* the detour computed before cleanup (index.ts 469-570); hit is the list of
\* obstacles the direct segment intersects, never empty here
PrimaryWaypoints(obstacles, hit, fromPoint, toPoint, fromAnchor, toAnchor) ==
    LET minX == MinOf({hit[i].x : i \in 1..Len(hit)})
        minY == MinOf({hit[i].y : i \in 1..Len(hit)})
        maxX == MaxOf({hit[i].x + hit[i].width : i \in 1..Len(hit)})
        maxY == MaxOf({hit[i].y + hit[i].height : i \in 1..Len(hit)})
        isHorizontalStart == IsHorizontal(fromAnchor)
        isHorizontalEnd == IsHorizontal(toAnchor)
    IN
    IF isHorizontalStart /\ isHorizontalEnd THEN
      LET aboveY == MinOf({fromPoint.y, toPoint.y, minY - Margin})
          belowY == MaxOf({fromPoint.y, toPoint.y, maxY + Margin})
          distAbove == Abs(fromPoint.y - aboveY) + Abs(toPoint.y - aboveY)
          distBelow == Abs(fromPoint.y - belowY) + Abs(toPoint.y - belowY)
          routeY == IF distAbove <= distBelow THEN aboveY ELSE belowY
          exitX == IF fromAnchor = "right" THEN MaxOf({fromPoint.x, maxX}) + Margin
                   ELSE MinOf({fromPoint.x, minX}) - Margin
          entryX == IF toAnchor = "left" THEN MinOf({toPoint.x, minX}) - Margin
                    ELSE MaxOf({toPoint.x, maxX}) + Margin
      IN IF Abs(fromPoint.y - toPoint.y) > 50 \/ Len(hit) > 0
         THEN <<Pt(exitX, fromPoint.y), Pt(exitX, routeY),
                Pt(entryX, routeY), Pt(entryX, toPoint.y)>>
         ELSE LET midX == (fromPoint.x + toPoint.x) \div 2
              IN <<Pt(midX, fromPoint.y), Pt(midX, toPoint.y)>>
    ELSE IF ~isHorizontalStart /\ ~isHorizontalEnd THEN
      LET leftX == MinOf({fromPoint.x, toPoint.x, minX - Margin})
          rightX == MaxOf({fromPoint.x, toPoint.x, maxX + Margin})
          distLeft == Abs(fromPoint.x - leftX) + Abs(toPoint.x - leftX)
          distRight == Abs(fromPoint.x - rightX) + Abs(toPoint.x - rightX)
          routeX == IF distLeft <= distRight THEN leftX ELSE rightX
          exitY == IF fromAnchor = "bottom" THEN MaxOf({fromPoint.y, maxY}) + Margin
                   ELSE MinOf({fromPoint.y, minY}) - Margin
          entryY == IF toAnchor = "top" THEN MinOf({toPoint.y, minY}) - Margin
                    ELSE MaxOf({toPoint.y, maxY}) + Margin
      IN IF Abs(fromPoint.x - toPoint.x) > 50 \/ Len(hit) > 0
         THEN <<Pt(fromPoint.x, exitY), Pt(routeX, exitY),
                Pt(routeX, entryY), Pt(toPoint.x, entryY)>>
         ELSE LET midY == (fromPoint.y + toPoint.y) \div 2
              IN <<Pt(fromPoint.x, midY), Pt(toPoint.x, midY)>>
    ELSE IF isHorizontalStart THEN
      LET intermediatePoint == Pt(toPoint.x, fromPoint.y)
          intermediateBlocked == ~IsPathClear(obstacles, fromPoint, intermediatePoint)
                                 \/ ~IsPathClear(obstacles, intermediatePoint, toPoint)
          goUp == toPoint.y < fromPoint.y
          routeY == IF goUp THEN MinOf({minY, fromPoint.y, toPoint.y}) - Margin
                    ELSE MaxOf({maxY, fromPoint.y, toPoint.y}) + Margin
          extendX == IF fromAnchor = "right" THEN MaxOf({fromPoint.x, maxX}) + Margin
                     ELSE MinOf({fromPoint.x, minX}) - Margin
      IN IF intermediateBlocked
         THEN <<Pt(extendX, fromPoint.y), Pt(extendX, routeY), Pt(toPoint.x, routeY)>>
         ELSE <<Pt(toPoint.x, fromPoint.y)>>
    ELSE
      LET intermediatePoint == Pt(fromPoint.x, toPoint.y)
          intermediateBlocked == ~IsPathClear(obstacles, fromPoint, intermediatePoint)
                                 \/ ~IsPathClear(obstacles, intermediatePoint, toPoint)
          goLeft == toPoint.x < fromPoint.x
          routeX == IF goLeft THEN MinOf({minX, fromPoint.x, toPoint.x}) - Margin
                    ELSE MaxOf({maxX, fromPoint.x, toPoint.x}) + Margin
          extendY == IF fromAnchor = "bottom" THEN MaxOf({fromPoint.y, maxY}) + Margin
                     ELSE MinOf({fromPoint.y, minY}) - Margin
      IN IF intermediateBlocked
         THEN <<Pt(fromPoint.x, extendY), Pt(routeX, extendY), Pt(routeX, toPoint.y)>>
         ELSE <<Pt(fromPoint.x, toPoint.y)>>

\* mutant: the safe margin is applied inwards instead of outwards
FallbackWaypointsInwards(obstacles, fromPoint, toPoint, fromAnchor, toAnchor) ==
    LET allMinX == MinOf({obstacles[i].x : i \in 1..Len(obstacles)})
        allMinY == MinOf({obstacles[i].y : i \in 1..Len(obstacles)})
        allMaxX == MaxOf({obstacles[i].x + obstacles[i].width : i \in 1..Len(obstacles)})
        allMaxY == MaxOf({obstacles[i].y + obstacles[i].height : i \in 1..Len(obstacles)})
        safeY == IF 2 * fromPoint.y <= allMinY + allMaxY
                 THEN allMinY + SafeMargin ELSE allMaxY - SafeMargin
        safeX == IF 2 * fromPoint.x <= allMinX + allMaxX
                 THEN allMinX + SafeMargin ELSE allMaxX - SafeMargin
    IN IF IsHorizontal(fromAnchor)
       THEN <<Pt(fromPoint.x, safeY), Pt(toPoint.x, safeY)>>
       ELSE <<Pt(safeX, fromPoint.y), Pt(safeX, toPoint.y)>>

\* the wide detour around all obstacles (index.ts 585-611)
FallbackWaypoints(obstacles, fromPoint, toPoint, fromAnchor, toAnchor) ==
    LET allMinX == MinOf({obstacles[i].x : i \in 1..Len(obstacles)})
        allMinY == MinOf({obstacles[i].y : i \in 1..Len(obstacles)})
        allMaxX == MaxOf({obstacles[i].x + obstacles[i].width : i \in 1..Len(obstacles)})
        allMaxY == MaxOf({obstacles[i].y + obstacles[i].height : i \in 1..Len(obstacles)})
        isHorizontalStart == IsHorizontal(fromAnchor)
        isHorizontalEnd == IsHorizontal(toAnchor)
        \* fromPoint.y <= (allMinY + allMaxY) / 2, without dividing
        goAbove == 2 * fromPoint.y <= allMinY + allMaxY
        goLeft == 2 * fromPoint.x <= allMinX + allMaxX
        safeY == IF goAbove THEN allMinY - SafeMargin ELSE allMaxY + SafeMargin
        safeX == IF goLeft THEN allMinX - SafeMargin ELSE allMaxX + SafeMargin
        stub(p, anchor) ==
            Pt(p.x + (IF IsHorizontal(anchor)
                      THEN (IF anchor = "right" THEN SafeMargin ELSE -SafeMargin) ELSE 0),
               p.y + (IF ~IsHorizontal(anchor)
                      THEN (IF anchor = "bottom" THEN SafeMargin ELSE -SafeMargin) ELSE 0))
    IN IF isHorizontalStart /\ isHorizontalEnd
       THEN <<Pt(fromPoint.x, safeY), Pt(toPoint.x, safeY)>>
       ELSE IF ~isHorizontalStart /\ ~isHorizontalEnd
       THEN <<Pt(safeX, fromPoint.y), Pt(safeX, toPoint.y)>>
       ELSE <<stub(fromPoint, fromAnchor), Pt(safeX, safeY), stub(toPoint, toAnchor)>>

\* mutant: only the first segment of the path is verified
AllClearFirstSegment(obstacles, fromPoint, waypoints, toPoint) ==
    LET allPathPoints == <<fromPoint>> \o waypoints \o <<toPoint>>
    IN IsPathClear(obstacles, allPathPoints[1], allPathPoints[2])

\* every segment of from -> waypoints -> to is clear of every obstacle
AllClear(obstacles, fromPoint, waypoints, toPoint) ==
    LET allPathPoints == <<fromPoint>> \o waypoints \o <<toPoint>>
    IN \A i \in 1..(Len(allPathPoints) - 1) :
         IsPathClear(obstacles, allPathPoints[i], allPathPoints[i + 1])

\* the waypoints computed when none are supplied (index.ts 421-613); els is
\* diagram.elements, which getObstacleBounds reads
ComputedWaypoints(els, fromElement, toElement, fromAnchor, toAnchor) ==
    LET fromPoint == GetAnchorPoint(fromElement, fromAnchor)
        toPoint == GetAnchorPoint(toElement, toAnchor)
        excludeIds == {fromElement.id, toElement.id}
        obstacles == GetObstacleBounds(els, excludeIds)
        blocks(obs) == LineIntersectsRect(fromPoint, toPoint, obs, DirectPadding)
        intersectingObstacles == SelectSeq(obstacles, blocks)
    IN IF Len(intersectingObstacles) = 0 THEN <<>>
       ELSE
         LET waypoints == PrimaryWaypoints(obstacles, intersectingObstacles,
                                           fromPoint, toPoint, fromAnchor, toAnchor)
             cleanedWaypoints == CleanupWaypoints(waypoints, fromPoint, toPoint)
         IN IF AllClear(obstacles, fromPoint, cleanedWaypoints, toPoint)
            THEN cleanedWaypoints
            ELSE FallbackWaypoints(obstacles, fromPoint, toPoint, fromAnchor, toAnchor)

\* mutant: the supplied waypoints go through cleanup like the computed ones
CalculateAutoWaypointsCleaned(els, fromElement, toElement, fromAnchor, toAnchor, existingWaypoints) ==
    IF Len(existingWaypoints) > 0
    THEN CleanupWaypoints(existingWaypoints, GetAnchorPoint(fromElement, fromAnchor),
                          GetAnchorPoint(toElement, toAnchor))
    ELSE ComputedWaypoints(els, fromElement, toElement, fromAnchor, toAnchor)

CalculateAutoWaypoints(els, fromElement, toElement, fromAnchor, toAnchor, existingWaypoints) ==
    IF Len(existingWaypoints) > 0 THEN existingWaypoints
    ELSE ComputedWaypoints(els, fromElement, toElement, fromAnchor, toAnchor)

-----------------------------------------------------------------------------
(* Identities and the states after construction                            *)

\* generateId: prefix_counter_timestamp
MkId(prefix, counter, time) == <<prefix, counter, time>>

DefaultCanvas == [width |-> 1400, height |-> 900]

NoReply == [op |-> "none", id |-> <<>>, status |-> "ok"]
NoRoute == [called |-> FALSE, fromId |-> <<>>, toId |-> <<>>, fromAnchor |-> "right",
            toAnchor |-> "left", existing |-> <<>>, result |-> <<>>]
NoOutcome == [op |-> "none", success |-> TRUE]
\* the State of a new session: the Map of State.elements is object 1, and
\* saveToHistory has pushed its clone, object 2, on a new History
NoHeap ==
    [cells |-> << [kind |-> "Map", entries |-> <<>>], [kind |-> "Map", entries |-> <<>>] >>,
     elements |-> 1, undoStack |-> <<2>>, redoStack |-> <<>>]

\* SessionManager.dragState after construction: elementStartPositions and
\* arrowWaypointsStart are Maps (sequences of entries in insertion order),
\* draggingWaypoint and resizingElement are null (the empty sequence) or hold
\* one value
NoDrag ==
    [isDragging |-> FALSE, elementStartPositions |-> <<>>, arrowWaypointsStart |-> <<>>,
     draggingWaypoint |-> <<>>, resizingElement |-> <<>>, resizeStartSize |-> <<>>]

\* MCPClient after construction, not connected: ws is "null", "connecting"
\* or "open"; pendingDiagram is null (the empty sequence) or holds one
\* message's data; reconnectTimers counts the reconnects setTimeout holds,
\* inbox the messages sent to the socket and not yet received, requests the
\* PUT /api/diagram requests without an answer
NoClient ==
    [ws |-> "null", isSyncingFromServer |-> FALSE, isSyncingToServer |-> FALSE,
     reconnectAttempts |-> 0, isAILoading |-> FALSE, pendingDiagram |-> <<>>,
     reconnectTimers |-> 0, inbox |-> <<>>, requests |-> <<>>,
     sends |-> 0, sent |-> <<>>, applied |-> <<>>, bracket |-> "none"]
\* index.ts before startWebSocketServer: instances counts the WebSocketServer
\* objects that listen, timers the timeouts that are armed; late holds the
\* sockets the server has called close() on whose handlers are still bound;
\* currentSessionId is null (the empty sequence) or holds an id
NoWsServer ==
    [wss |-> FALSE, autoShutdownTimer |-> FALSE, wsClients |-> {},
     instances |-> 0, timers |-> 0, late |-> {}, currentSessionId |-> <<>>]
\* State and SessionManager before any session: sessionId is null (the empty
\* sequence) or holds an id; saveDebounceTimer says whether the timeout of
\* scheduleSave is armed; pending is the call of SessionManager that waits
\* for a fetch; store maps the ids of the saved sessions to what was saved;
\* created counts the ids generateSessionId has made. origin is the session
\* that was current when the elements were loaded or received
NoSession ==
    [sessionId |-> <<>>, saveDebounceTimer |-> FALSE, origin |-> <<>>,
     pending |-> <<>>, store |-> <<>>, created |-> 0]
LinkStart == mcpClient = NoClient /\ wsServer = NoWsServer /\ session = NoSession

ServerStart ==
    /\ diagram = [elements |-> <<>>, canvasSize |-> DefaultCanvas]
    /\ idCounter = 0
    /\ now = 0
    /\ reply = NoReply

\* the State after construction and main.ts's first saveToHistory
EditorStart ==
    /\ elements = <<>>
    /\ selectedIds = {}
    /\ canvasSize = DefaultCanvas
    /\ clipboard = <<>>
    /\ undoStack = << <<>> >>
    /\ redoStack = <<>>
    /\ stateIdCounter = 0
    /\ outcome = NoOutcome

-----------------------------------------------------------------------------
(* The router on its own: a diagram drawn from a family of layouts, and    *)
(* calls of calculateAutoWaypoints on it                                   *)

MaxObstacles == 2

Component(id, px, py, w, h) ==
    [id |-> id, type |-> "component", x |-> px, y |-> py, width |-> w, height |-> h]
\* a component as generate_architecture makes it: no width, no height
BareComponent(id, px, py) == [id |-> id, type |-> "component", x |-> px, y |-> py]
Zone(id, px, py, w, h) ==
    [id |-> id, type |-> "zone", x |-> px, y |-> py, width |-> w, height |-> h]

FromShape == Component(MkId("comp", 1, 0), 0, 0, 100, 80)
ToPositions == {Pt(300, 0), Pt(500, 360), Pt(0, 300), Pt(300, 216), Pt(500, 216)}
ObstaclePositions ==
    {Pt(150, -20), Pt(250, 150), Pt(0, 150), Pt(150, 100), Pt(400, 150), Pt(150, 300)}
\* supplied waypoint lists: none, one inside the middle box, two nearly equal
ManualWaypoints == {<<>>, <<Pt(200, 20)>>, <<Pt(120, 300), Pt(125, 303)>>}

RECURSIVE SetToSeq(_)
SetToSeq(S) == IF S = {} THEN <<>>
               ELSE LET e == CHOOSE e \in S : TRUE IN <<e>> \o SetToSeq(S \ {e})

ObstacleAt(k, p) == Component(MkId("comp", 2 + k, 0), p.x, p.y, 100, 80)
ObstacleSeq(ps) == LET s == SetToSeq(ps) IN [k \in 1..Len(s) |-> ObstacleAt(k, s[k])]

\* the zone behind everything (add_zone unshifts it) and an arrow are never obstacles
Layout(toPos, obstaclePs, withZone) ==
    (IF withZone THEN <<Zone(MkId("zone", 9, 0), -100, -100, 800, 700)>> ELSE <<>>)
    \o <<FromShape, BareComponent(MkId("comp", 2, 0), toPos.x, toPos.y)>>
    \o ObstacleSeq(obstaclePs)

RouterInit ==
    /\ \E toPos \in ToPositions, withZone \in BOOLEAN :
       \E ps \in {q \in SUBSET ObstaclePositions : Cardinality(q) <= MaxObstacles} :
          diagram = [elements |-> Layout(toPos, ps, withZone), canvasSize |-> DefaultCanvas]
    /\ idCounter = 0
    /\ now = 0
    /\ reply = NoReply
    /\ route = NoRoute /\ heap = NoHeap /\ dragState = NoDrag /\ LinkStart
    /\ EditorStart

ElementById(els, id) == CHOOSE el \in Range(els) : el.id = id

\* a call of calculateAutoWaypoints between the two endpoint shapes, either way round
Route ==
    /\ ~route.called
    /\ \E ends \in {<<MkId("comp", 1, 0), MkId("comp", 2, 0)>>,
                    <<MkId("comp", 2, 0), MkId("comp", 1, 0)>>},
          fromAnchor \in AnchorSet, toAnchor \in AnchorSet,
          existingWaypoints \in ManualWaypoints :
          route' = [called |-> TRUE, fromId |-> ends[1], toId |-> ends[2],
                    fromAnchor |-> fromAnchor, toAnchor |-> toAnchor,
                    existing |-> existingWaypoints,
                    result |-> CalculateAutoWaypoints(diagram.elements,
                                  ElementById(diagram.elements, ends[1]),
                                  ElementById(diagram.elements, ends[2]),
                                  fromAnchor, toAnchor, existingWaypoints)]
    /\ UNCHANGED <<serverVars, now, editorVars, heap, dragState, linkVars>>

RouterNext == Route

SpecRouter == RouterInit /\ [][RouterNext]_vars

-----------------------------------------------------------------------------
(* Properties of the router                                                *)

\* the closed segment p1-p2 and the closed rectangle grown by padding share a
\* point: their x-extents and y-extents overlap and the four corners are not
\* all strictly on one side of the line through p1 and p2
SegmentMeetsRect(p1, p2, rect, padding) ==
    LET left == rect.x - padding
        right == rect.x + rect.width + padding
        top == rect.y - padding
        bottom == rect.y + rect.height + padding
        side(cx, cy) == (p2.x - p1.x) * (cy - p1.y) - (p2.y - p1.y) * (cx - p1.x)
        sides == {side(left, top), side(right, top), side(left, bottom), side(right, bottom)}
    IN /\ MaxOf({p1.x, p2.x}) >= left /\ MinOf({p1.x, p2.x}) <= right
       /\ MaxOf({p1.y, p2.y}) >= top /\ MinOf({p1.y, p2.y}) <= bottom
       /\ ~(\A v \in sides : v > 0)
       /\ ~(\A v \in sides : v < 0)

RouteFromPoint == GetAnchorPoint(ElementById(diagram.elements, route.fromId), route.fromAnchor)
RouteToPoint == GetAnchorPoint(ElementById(diagram.elements, route.toId), route.toAnchor)
RoutePath == <<RouteFromPoint>> \o route.result \o <<RouteToPoint>>

\* the shapes that can block the call: neither arrows nor zones nor the endpoints
RouteBlockers ==
    {el \in Range(diagram.elements) :
        el.type \notin {"arrow", "zone"} /\ el.id \notin {route.fromId, route.toId}}
BoundsOf(el) == [x |-> el.x, y |-> el.y, width |-> WidthOf(el), height |-> HeightOf(el)]
DirectBlocked ==
    \E el \in RouteBlockers :
        SegmentMeetsRect(RouteFromPoint, RouteToPoint, BoundsOf(el), DirectPadding)

\* C1: a call with a non-empty supplied waypoint list returns exactly that
\* list, same points in the same order, whatever the shapes, anchors and obstacles
ManualOverride ==
    (route.called /\ Len(route.existing) > 0) => route.result = route.existing

ManualOverrideWitness ==
    route.called /\ Len(route.existing) > 0 /\ DirectBlocked
    /\ route.result = route.existing

\* C2: with no supplied waypoints and no obstacle whose padded bounds meet the
\* segment from the from-anchor point to the to-anchor point, the router
\* returns the empty list
DirectPathShortcut ==
    (route.called /\ route.existing = <<>> /\ ~DirectBlocked) => route.result = <<>>

DirectPathShortcutWitness ==
    route.called /\ route.existing = <<>> /\ ~DirectBlocked
    /\ Cardinality(RouteBlockers) = 2 /\ route.result = <<>>
    /\ RouteFromPoint.x # RouteToPoint.x /\ RouteFromPoint.y # RouteToPoint.y

Orthogonal(path) ==
    \A i \in 1..(Len(path) - 1) : path[i].x = path[i + 1].x \/ path[i].y = path[i + 1].y

\* C3: every consecutive pair of points of [fromPoint, ...waypoints, toPoint]
\* shares its x or its y coordinate, for every computed result: the direct
\* line, the primary detour after cleanup and the fallback
Orthogonality ==
    (route.called /\ route.existing = <<>>) => Orthogonal(RoutePath)

\* C3 on the detours alone: when the direct segment is blocked the returned
\* path has right-angle segments only
OrthogonalDetour ==
    (route.called /\ route.existing = <<>> /\ DirectBlocked) => Orthogonal(RoutePath)

\* C4: one obstacle directly between two shapes joined right to left
SingleObstacleBetween ==
    /\ route.called /\ route.existing = <<>>
    /\ route.fromAnchor = "right" /\ route.toAnchor = "left"
    /\ Cardinality(RouteBlockers) = 1
    /\ DirectBlocked
    /\ \A el \in RouteBlockers :
          RouteFromPoint.x < el.x /\ el.x + WidthOf(el) < RouteToPoint.x

\* C4: then the list is not empty, the path has a horizontal shelf at least
\* the margin above the obstacle's top or below its bottom, every horizontal
\* segment that runs over the obstacle's x-extent lies outside its padded
\* vertical extent, and no segment of the path meets the obstacle rectangle
ObstacleClearance ==
    SingleObstacleBetween =>
      \A el \in RouteBlockers :
        LET path == RoutePath
            segs == 1..(Len(path) - 1)
            horizontal(i) == path[i].y = path[i + 1].y /\ path[i].x # path[i + 1].x
            over(i) == MaxOf({path[i].x, path[i + 1].x}) >= el.x
                       /\ MinOf({path[i].x, path[i + 1].x}) <= el.x + WidthOf(el)
        IN /\ route.result # <<>>
           /\ \E i \in segs : horizontal(i)
                 /\ (path[i].y <= el.y - Margin \/ path[i].y >= el.y + HeightOf(el) + Margin)
           /\ \A i \in segs : (horizontal(i) /\ over(i)) =>
                 (path[i].y < el.y - PathPadding \/ path[i].y > el.y + HeightOf(el) + PathPadding)
           /\ \A i \in segs : ~SegmentMeetsRect(path[i], path[i + 1], BoundsOf(el), 0)

\* the scenario of the specification: boxes (0,0,100,80) and (300,0,100,80)
\* with (150,-20,100,80) between them
ObstacleClearanceWitness ==
    /\ SingleObstacleBetween
    /\ \E el \in RouteBlockers : el.x = 150 /\ el.y = -20
    /\ RouteFromPoint = Pt(100, 40) /\ RouteToPoint = Pt(300, 40)
    /\ Len(route.result) >= 2

\* the bounding box of all the shapes that can block the call
UnionBox ==
    [minX |-> MinOf({el.x : el \in RouteBlockers}),
     minY |-> MinOf({el.y : el \in RouteBlockers}),
     maxX |-> MaxOf({el.x + WidthOf(el) : el \in RouteBlockers}),
     maxY |-> MaxOf({el.y + HeightOf(el) : el \in RouteBlockers})]

\* no segment of the returned path comes within the path-check padding of any
\* blocking shape
PathVerified ==
    \A i \in 1..(Len(RoutePath) - 1) : \A el \in RouteBlockers :
        ~SegmentMeetsRect(RoutePath[i], RoutePath[i + 1], BoundsOf(el), PathPadding)

\* the returned list is a fallback route: a shelf or a lane (or, for mixed
\* anchors, a corner) the fallback margin outside the union bounding box
OnFallbackRoute ==
    LET shelfYs == {UnionBox.minY - SafeMargin, UnionBox.maxY + SafeMargin}
        laneXs == {UnionBox.minX - SafeMargin, UnionBox.maxX + SafeMargin}
    IN IF IsHorizontal(route.fromAnchor) /\ IsHorizontal(route.toAnchor)
       THEN \E y \in shelfYs :
               route.result = <<Pt(RouteFromPoint.x, y), Pt(RouteToPoint.x, y)>>
       ELSE IF ~IsHorizontal(route.fromAnchor) /\ ~IsHorizontal(route.toAnchor)
       THEN \E x \in laneXs :
               route.result = <<Pt(x, RouteFromPoint.y), Pt(x, RouteToPoint.y)>>
       ELSE /\ Len(route.result) = 3
            /\ route.result[2].x \in laneXs
            /\ route.result[2].y \in shelfYs

\* C24: when the direct segment is blocked, either no segment of
\* [from, ...waypoints, to] meets any obstacle grown by the path-check
\* padding, or the waypoints are the fallback route the fallback margin
\* outside the union bounding box of all obstacles; a detour that meets an
\* obstacle is never returned unless it is that fallback
VerifiedOrFallback ==
    (route.called /\ route.existing = <<>> /\ DirectBlocked) =>
        (PathVerified \/ OnFallbackRoute)

\* the fallback returned unchecked: it runs through an obstacle's padding
FallbackReturnedUnchecked ==
    /\ route.called /\ route.existing = <<>> /\ DirectBlocked
    /\ Cardinality(RouteBlockers) = 2
    /\ OnFallbackRoute /\ ~PathVerified

\* the sign of the stub an anchor leaves or enters by
StubSign(anchor) == IF anchor \in {"right", "bottom"} THEN 1 ELSE -1

\* C25: when both anchors face horizontally and an obstacle blocks the direct
\* segment, the result is exactly the four waypoints
\* (fromPoint.x +- margin, fromPoint.y), (same x, shelfY),
\* (toPoint.x -+ margin, shelfY), (same x, toPoint.y) for some shelfY, the
\* sign given by the anchor side; when both face vertically it is the four
\* waypoints around a lane x in the same way
DetourShape ==
    (route.called /\ route.existing = <<>> /\ DirectBlocked
        /\ IsHorizontal(route.fromAnchor) = IsHorizontal(route.toAnchor)) =>
      /\ Len(route.result) = 4
      /\ IF IsHorizontal(route.fromAnchor)
         THEN /\ route.result[1] = Pt(RouteFromPoint.x + StubSign(route.fromAnchor) * Margin,
                                      RouteFromPoint.y)
              /\ route.result[2].x = route.result[1].x
              /\ route.result[3] = Pt(RouteToPoint.x + StubSign(route.toAnchor) * Margin,
                                      route.result[2].y)
              /\ route.result[4] = Pt(route.result[3].x, RouteToPoint.y)
         ELSE /\ route.result[1] = Pt(RouteFromPoint.x,
                                      RouteFromPoint.y + StubSign(route.fromAnchor) * Margin)
              /\ route.result[2].y = route.result[1].y
              /\ route.result[3] = Pt(route.result[2].x,
                                      RouteToPoint.y + StubSign(route.toAnchor) * Margin)
              /\ route.result[4] = Pt(RouteToPoint.x, route.result[3].y)

-----------------------------------------------------------------------------
(* The tool server: sizes, anchors and the tool handlers                   *)

MaxElements == 4
MaxIds == 2
MaxTime == 0

\* Math.ceil(n / step) * step for n >= 0
CeilTo(n, step) == ((n + step - 1) \div step) * step

\* calculateComponentSize at fontSize 14, in hundredths of a pixel: charWidth
\* 8.4, lineHeight 19.6; subLen = 0 stands for no (or an empty) subtitle
CalculateComponentSize(nameLen, subLen) ==
    LET nameLines == (nameLen + 19) \div 20
        nameWidth == MinOf({nameLen, 20}) * 840
        subWidth == IF subLen > 0 THEN MinOf({subLen, 20}) * 714 ELSE 0
        width == MaxOf({8000, MaxOf({nameWidth, subWidth}) + 3200})
        height == MaxOf({6000, 3600 + 1960 * nameLines
                                 + (IF subLen > 0 THEN 1666 ELSE 0)})
    IN [width |-> CeilTo(width, 1000) \div 100, height |-> CeilTo(height, 1000) \div 100]

\* calculateNoteSize: lineLens are the lengths of the lines of text.split('\n')
CalculateNoteSize(titleLen, lineLens) ==
    LET maxLineLength == MaxOf({titleLen} \cup Range(lineLens))
        width == MaxOf({120, maxLineLength * 8 + 24})
        height == MaxOf({80, (Len(lineLens) + (IF titleLen > 0 THEN 1 ELSE 0)) * 20 + 40})
    IN [width |-> CeilTo(width, 20), height |-> CeilTo(height, 20)]

\* calculateScenarioSize at fontSize 14, in tenths of a pixel
CalculateScenarioSize(titleLen, subtitleLen, descLen) ==
    LET maxLength == MaxOf({titleLen, subtitleLen, descLen})
        width == MaxOf({1400, maxLength * 84 + 320})
        height == MaxOf({900, 196 * 3 + 500})
    IN [width |-> CeilTo(width, 200) \div 10, height |-> CeilTo(height, 200) \div 10]

\* calculateZoneSizeForComponents: comps is a sequence of shapes
CalculateZoneSizeForComponents(comps, padding) ==
    IF Len(comps) = 0 THEN [x |-> 50, y |-> 50, width |-> 300, height |-> 200]
    ELSE LET w(c) == IF Has(c, "width") /\ c.width # 0 THEN c.width ELSE 120
             h(c) == IF Has(c, "height") /\ c.height # 0 THEN c.height ELSE 80
             minX == MinOf({c.x : c \in Range(comps)})
             minY == MinOf({c.y : c \in Range(comps)})
             maxX == MaxOf({c.x + w(c) : c \in Range(comps)})
             maxY == MaxOf({c.y + h(c) : c \in Range(comps)})
         IN [x |-> minX - padding, y |-> minY - padding - 20,
             width |-> CeilTo(maxX - minX + padding * 2, 20),
             height |-> CeilTo(maxY - minY + padding * 2 + 20, 20)]

IsOpposite(fromAnchor, toAnchor) ==
    <<fromAnchor, toAnchor>> \in {<<"right", "left">>, <<"left", "right">>,
                                  <<"bottom", "top">>, <<"top", "bottom">>}

\* the k-th pair of the two loops over anchors, k in 1..16
AnchorPair(k) == <<Anchors[(k - 1) \div 4 + 1], Anchors[((k - 1) % 4) + 1]>>

AdjustedDistanceNoPenalty(fromElement, toElement, k) ==
    LET fromPoint == GetAnchorPoint(fromElement, AnchorPair(k)[1])
        toPoint == GetAnchorPoint(toElement, AnchorPair(k)[2])
    IN 25 * ((toPoint.x - fromPoint.x) * (toPoint.x - fromPoint.x)
             + (toPoint.y - fromPoint.y) * (toPoint.y - fromPoint.y))
\* adjustedDistance of the k-th pair, squared and times 25, so that
\* distance < distance' * 1.2 is compared as 25 * d2 < 36 * d2'
AdjustedDistance(fromElement, toElement, k) ==
    LET fromPoint == GetAnchorPoint(fromElement, AnchorPair(k)[1])
        toPoint == GetAnchorPoint(toElement, AnchorPair(k)[2])
        d2 == (toPoint.x - fromPoint.x) * (toPoint.x - fromPoint.x)
              + (toPoint.y - fromPoint.y) * (toPoint.y - fromPoint.y)
    IN IF IsOpposite(AnchorPair(k)[1], AnchorPair(k)[2]) THEN 25 * d2 ELSE 36 * d2

\* the loops of calculateBestAnchors from the k-th pair on; minDistance -1
\* stands for Infinity
RECURSIVE BestAnchorsFrom(_, _, _, _, _)
BestAnchorsFrom(fromElement, toElement, k, minDistance, best) ==
    IF k > 16 THEN best
    ELSE IF \E adjustedDistance \in {AdjustedDistance(fromElement, toElement, k)} :
               minDistance < 0 \/ adjustedDistance < minDistance
         THEN BestAnchorsFrom(fromElement, toElement, k + 1,
                              AdjustedDistance(fromElement, toElement, k), k)
         ELSE BestAnchorsFrom(fromElement, toElement, k + 1, minDistance, best)

\* calculateBestAnchors: best starts as right/left, the 15th pair, and a
\* pair replaces it when its adjusted distance is less than minDistance
CalculateBestAnchors(fromElement, toElement) ==
    LET best == BestAnchorsFrom(fromElement, toElement, 1, -1, 15)
    IN [fromAnchor |-> AnchorPair(best)[1], toAnchor |-> AnchorPair(best)[2]]

\* Object.assign(element, updates), { ...element, ...updates }
Assign(element, updates) ==
    [f \in DOMAIN element \cup DOMAIN updates |->
        IF f \in DOMAIN updates THEN updates[f] ELSE element[f]]

Ids(els) == {els[i].id : i \in 1..Len(els)}
\* elements.findIndex(el => el.id === id) + 1: 0 when there is none
FindIndex(els, id) ==
    IF id \in Ids(els) THEN MinOf({i \in 1..Len(els) : els[i].id = id}) ELSE 0
ShapeIds(els) == {els[i].id : i \in {j \in 1..Len(els) : els[j].type # "arrow"}}

\* an id no element ever has
GhostId == MkId("ghost", 0, 0)

Arrow(id, from, fromAnchor, to, toAnchor, waypoints, style) ==
    [id |-> id, type |-> "arrow", from |-> from, fromAnchor |-> fromAnchor, to |-> to,
     toAnchor |-> toAnchor, waypoints |-> waypoints, style |-> style]
Note(id, px, py, w, h) ==
    [id |-> id, type |-> "note", x |-> px, y |-> py, width |-> w, height |-> h]
Scenario(id, px, py, w, h) ==
    [id |-> id, type |-> "scenario", x |-> px, y |-> py, width |-> w, height |-> h]

\* args.x || 100: an omitted (or zero) coordinate takes the default
OrDefault(v, d) == IF v = 0 THEN d ELSE v

\* generateId(prefix) with the clock at time: ++idCounter is the caller's part
GenerateId(prefix, time) == MkId(prefix, idCounter + 1, time)

\* what the callers pass: x of a component (0: omitted), the lengths of the
\* default name "Component" and of the default title "Scenario"
ComponentXs == {0, 500}
NameLens == {9}
TitleLens == {8}
CanvasWidths == {0}

Answer(op, id, status) == [op |-> op, id |-> id, status |-> status]
CanGrow == Len(diagram.elements) < MaxElements /\ idCounter < MaxIds

CreateDiagram ==
    /\ \E w \in CanvasWidths :
         diagram' = [elements |-> <<>>,
                     canvasSize |-> [width |-> OrDefault(w, 1400), height |-> 900]]
    /\ idCounter' = 0
    /\ reply' = Answer("create_diagram", <<>>, "ok")
    /\ UNCHANGED <<now, route, editorVars, heap, dragState, linkVars>>

AddComponent ==
    /\ CanGrow
    /\ \E px \in ComponentXs, nameLen \in NameLens, t \in now..MaxTime :
         LET size == CalculateComponentSize(nameLen, 0)
             component == Component(GenerateId("comp", t), OrDefault(px, 100),
                                    OrDefault(0, 100), size.width, size.height)
         IN /\ diagram' = [diagram EXCEPT !.elements = Append(@, component)]
            /\ now' = t
            /\ reply' = Answer("add_component", component.id, "ok")
    /\ idCounter' = idCounter + 1
    /\ UNCHANGED <<route, editorVars, heap, dragState, linkVars>>

\* containsIds is omitted or names every element of the diagram
AddZone ==
    /\ CanGrow
    /\ \E containsIds \in {{}, Ids(diagram.elements)}, t \in now..MaxTime :
         LET isContained(el) == el.id \in containsIds /\ el.type # "arrow"
             containedComponents == SelectSeq(diagram.elements, isContained)
             autoSize == CalculateZoneSizeForComponents(containedComponents, 40)
             zone == IF Len(containedComponents) > 0
                     THEN Zone(GenerateId("zone", t), autoSize.x, autoSize.y,
                               autoSize.width, autoSize.height)
                     ELSE Zone(GenerateId("zone", t), 50, 50, 200, 150)
         IN /\ diagram' = [diagram EXCEPT !.elements = <<zone>> \o @]
            /\ now' = t
            /\ reply' = Answer("add_zone", zone.id, "ok")
    /\ idCounter' = idCounter + 1
    /\ UNCHANGED <<route, editorVars, heap, dragState, linkVars>>

\* the arguments of add_arrow: from and to name the first and the last shape
\* of the diagram, either way round, or no element at all; between the first
\* and the last shape the from-anchor or the waypoints may be given as well
ArrowArgs ==
    LET shapes == SelectSeq(diagram.elements, LAMBDA el : el.type # "arrow")
        first == IF Len(shapes) > 0 THEN shapes[1].id ELSE GhostId
        last == IF Len(shapes) > 0 THEN shapes[Len(shapes)].id ELSE GhostId
    IN {[from |-> first, to |-> last], [from |-> last, to |-> first],
        [from |-> first, to |-> GhostId], [from |-> GhostId, to |-> last],
        [from |-> GhostId, to |-> GhostId],
        [from |-> first, to |-> last, fromAnchor |-> "bottom"],
        [from |-> first, to |-> last, waypoints |-> <<Pt(200, 20)>>]}

\* the arrow add_arrow builds from args on the elements els, with the given id
BuildArrow(els, args, id) ==
    LET fromId == args.from
        toId == args.to
        bothFound == fromId \in Ids(els) /\ toId \in Ids(els)
        fromElement == els[FindIndex(els, fromId)]
        toElement == els[FindIndex(els, toId)]
        bestAnchors == CalculateBestAnchors(fromElement, toElement)
        fromAnchor == IF Has(args, "fromAnchor") THEN args.fromAnchor
                      ELSE IF bothFound THEN bestAnchors.fromAnchor ELSE "right"
        toAnchor == IF Has(args, "toAnchor") THEN args.toAnchor
                    ELSE IF bothFound THEN bestAnchors.toAnchor ELSE "left"
        providedWaypoints == IF Has(args, "waypoints") THEN args.waypoints ELSE <<>>
        calculatedWaypoints ==
            IF bothFound
            THEN CalculateAutoWaypoints(els, fromElement, toElement, fromAnchor,
                                        toAnchor, providedWaypoints)
            ELSE <<>>
    IN Arrow(id, fromId, fromAnchor, toId, toAnchor, calculatedWaypoints, "solid")

AddArrow ==
    /\ CanGrow
    /\ \E args \in ArrowArgs, t \in now..MaxTime :
         \E arrow \in {BuildArrow(diagram.elements, args, GenerateId("arrow", t))} :
            /\ diagram' = [diagram EXCEPT !.elements = Append(@, arrow)]
            /\ now' = t
            /\ reply' = [op |-> "add_arrow", id |-> arrow.id, status |-> "ok",
                         from |-> args.from, to |-> args.to]
    /\ idCounter' = idCounter + 1
    /\ UNCHANGED <<route, editorVars, heap, dragState, linkVars>>

\* a note with no title and no text, at x 300
AddNote ==
    /\ CanGrow
    /\ \E t \in now..MaxTime :
         LET size == CalculateNoteSize(0, <<0>>)
             note == Note(GenerateId("note", t), OrDefault(300, 100), OrDefault(0, 100),
                          size.width, size.height)
         IN /\ diagram' = [diagram EXCEPT !.elements = Append(@, note)]
            /\ now' = t
            /\ reply' = Answer("add_note", note.id, "ok")
    /\ idCounter' = idCounter + 1
    /\ UNCHANGED <<route, editorVars, heap, dragState, linkVars>>

\* a scenario with the default title, at x 500
AddScenario ==
    /\ CanGrow
    /\ \E titleLen \in TitleLens, t \in now..MaxTime :
         LET size == CalculateScenarioSize(titleLen, 0, 0)
             scenario == Scenario(GenerateId("scenario", t), OrDefault(500, 100),
                                  OrDefault(0, 100), size.width, size.height)
         IN /\ diagram' = [diagram EXCEPT !.elements = Append(@, scenario)]
            /\ now' = t
            /\ reply' = Answer("add_scenario", scenario.id, "ok")
    /\ idCounter' = idCounter + 1
    /\ UNCHANGED <<route, editorVars, heap, dragState, linkVars>>

\* the filter of remove_element and of DELETE /api/elements/:id
WithoutElement(els, id) ==
    LET kept(el) == IF el.type = "arrow" THEN el.from # id /\ el.to # id ELSE el.id # id
    IN SelectSeq(els, kept)

Targets == Ids(diagram.elements) \cup {GhostId}
\* update_element and resize_element are called on the first component and
\* on the last element of the diagram; on an empty diagram the id names no
\* element
FirstComponent(els) ==
    {els[i].id : i \in {j \in DOMAIN els :
                            /\ els[j].type = "component"
                            /\ \A k \in 1..(j - 1) : els[k].type # "component"}}
EditTargets ==
    IF diagram.elements = <<>> THEN {GhostId}
    ELSE {diagram.elements[Len(diagram.elements)].id} \cup FirstComponent(diagram.elements)

RemoveElement ==
    /\ \E id \in Targets :
         IF FindIndex(diagram.elements, id) = 0
         THEN /\ reply' = Answer("remove_element", id, "not_found")
              /\ UNCHANGED diagram
         ELSE /\ diagram' = [diagram EXCEPT !.elements = WithoutElement(@, id)]
              /\ reply' = Answer("remove_element", id, "ok")
    /\ UNCHANGED <<idCounter, now, route, editorVars, heap, dragState, linkVars>>

\* the updates of update_element: a move of a shape, a new endpoint of an arrow
Updates(els, id) ==
    IF \E el \in Range(els) : el.id = id /\ el.type = "arrow"
    THEN {[to |-> GhostId]} ELSE {[x |-> 300]}

\* mutant: update_element of an id that names no element adds one
UpdateElementUpserting(id) ==
    /\ \E updates \in Updates(diagram.elements, id) :
         LET index == FindIndex(diagram.elements, id)
         IN IF index = 0
            THEN /\ reply' = Answer("update_element", id, "not_found")
                 /\ diagram' = [diagram EXCEPT
                                  !.elements = Append(@, Assign([id |-> id], updates))]
            ELSE /\ diagram' = [diagram EXCEPT !.elements[index] = Assign(@, updates)]
                 /\ reply' = Answer("update_element", id, "ok")
    /\ UNCHANGED <<idCounter, now, route, editorVars, heap, dragState, linkVars>>

\* the tool update_element called with id
UpdateElementWith(id) ==
    /\ \E updates \in Updates(diagram.elements, id) :
         LET index == FindIndex(diagram.elements, id)
         IN IF index = 0
            THEN /\ reply' = Answer("update_element", id, "not_found")
                 /\ UNCHANGED diagram
            ELSE /\ diagram' = [diagram EXCEPT !.elements[index] = Assign(@, updates)]
                 /\ reply' = Answer("update_element", id, "ok")
    /\ UNCHANGED <<idCounter, now, route, editorVars, heap, dragState, linkVars>>

UpdateElement == \E id \in EditTargets : UpdateElementWith(id)

\* width alone: height is left out
Resizes == {[width |-> 200]}

\* the tool resize_element called with id
ResizeElementWith(id) ==
    /\ \E updates \in Resizes :
         LET index == FindIndex(diagram.elements, id)
         IN IF index = 0
            THEN /\ reply' = Answer("resize_element", id, "not_found")
                 /\ UNCHANGED diagram
            ELSE IF diagram.elements[index].type = "arrow"
            THEN /\ reply' = Answer("resize_element", id, "not_resizable")
                 /\ UNCHANGED diagram
            ELSE /\ diagram' = [diagram EXCEPT !.elements[index] = Assign(@, updates)]
                 /\ reply' = Answer("resize_element", id, "ok")
    /\ UNCHANGED <<idCounter, now, route, editorVars, heap, dragState, linkVars>>

ResizeElement == \E id \in EditTargets : ResizeElementWith(id)

\* documents given to load_diagram: an export of two joined components, and
\* the same without the second component
SavedA == Component(MkId("comp", 1, 0), 100, 100, 110, 60)
SavedB == Component(MkId("comp", 2, 0), 500, 100, 110, 60)
SavedArrow == Arrow(MkId("arrow", 3, 0), SavedA.id, "right", SavedB.id, "left", <<>>, "solid")
SavedBack == Arrow(MkId("arrow", 4, 0), SavedB.id, "bottom", SavedA.id, "bottom", <<>>, "solid")
\* parses: JSON.parse returns; elements, canvasSize: the fields data has
LoadInputs ==
    {[parses |-> FALSE],
     [parses |-> TRUE],
     [parses |-> TRUE, elements |-> <<SavedA, SavedB, SavedArrow>>,
      canvasSize |-> [width |-> 800, height |-> 600]],
     [parses |-> TRUE, elements |-> <<SavedA, SavedArrow>>]}

LoadDiagram ==
    /\ \E data \in LoadInputs :
         IF data.parses
         THEN /\ diagram' = [elements |-> IF Has(data, "elements") THEN data.elements ELSE <<>>,
                             canvasSize |-> IF Has(data, "canvasSize") THEN data.canvasSize
                                            ELSE DefaultCanvas]
              /\ reply' = Answer("load_diagram", <<>>, "ok")
         ELSE /\ reply' = Answer("load_diagram", <<>>, "parse_error")
              /\ UNCHANGED diagram
    /\ UNCHANGED <<idCounter, now, route, editorVars, heap, dragState, linkVars>>

\* how many keywords the description holds: none (the default three
\* components) or two
KeywordCounts == {0, 2}

\* the elements generate_architecture makes for count components with the
\* clock at time t; arrows are no obstacles, so the router sees the components
GeneratedElements(count, t) ==
    LET comps == [i \in 1..count |->
                    BareComponent(MkId("comp", i, t), 100 + (i - 1) * 200,
                                  100 + (IF (i - 1) % 2 = 0 THEN 0 ELSE 80))]
        arrow(i) ==
            LET bestAnchors == CalculateBestAnchors(comps[i], comps[i + 1])
            IN Arrow(MkId("arrow", count + i, t), comps[i].id, bestAnchors.fromAnchor,
                     comps[i + 1].id, bestAnchors.toAnchor,
                     CalculateAutoWaypoints(comps, comps[i], comps[i + 1],
                         bestAnchors.fromAnchor, bestAnchors.toAnchor, <<>>),
                     "solid")
    IN comps \o [i \in 1..(count - 1) |-> arrow(i)]

\* GeneratedElements as a table, computed once
Generated ==
    [found \in KeywordCounts |->
        [t \in 0..MaxTime |-> GeneratedElements(IF found = 0 THEN 3 ELSE found, t)]]

GenerateArchitecture ==
    /\ \E found \in KeywordCounts, t \in now..MaxTime :
         /\ diagram' = [elements |-> Generated[found][t], canvasSize |-> DefaultCanvas]
         /\ idCounter' = Len(Generated[found][t])
         /\ now' = t
    /\ reply' = Answer("generate_architecture", <<>>, "ok")
    /\ UNCHANGED <<route, editorVars, heap, dragState, linkVars>>

\* the arguments of build_diagram: nothing at all, or three components (the
\* third between the other two), a zone around the first two, an arrow from
\* the first to the second, an arrow to an index out of range, an arrow from
\* the third to the first, and a note
BuildArgs ==
    {[components |-> <<>>, zones |-> <<>>, arrows |-> <<>>, notes |-> <<>>],
     [components |-> <<[nameLen |-> 9, x |-> 100, y |-> 100],
                       [nameLen |-> 9, x |-> 500, y |-> 100],
                       [nameLen |-> 9, x |-> 300, y |-> 100]>>,
      zones |-> <<[containsIndices |-> <<0, 1>>]>>,
      arrows |-> <<[from |-> 0, to |-> 1], [from |-> 0, to |-> 5], [from |-> 2, to |-> 0]>>,
      notes |-> <<[titleLen |-> 0, lineLens |-> <<4>>, x |-> 300, y |-> 300]>>]}

Reverse(s) == [i \in 1..Len(s) |-> s[Len(s) + 1 - i]]

\* build_diagram in its four passes, each a table over the arguments and the
\* clock: ids are counted from 1 through components, zones, arrows in range
\* and notes
BuildTimes == 0..MaxTime

\* components.forEach
BuiltComponents ==
    [args \in BuildArgs |-> [t \in BuildTimes |->
        [i \in 1..Len(args.components) |->
            LET c == args.components[i]
                size == CalculateComponentSize(c.nameLen, 0)
            IN Component(MkId("comp", i, t), c.x, c.y, size.width, size.height)]]]

\* zones.forEach: each zone is unshifted, so the last one comes first
BuiltZones ==
    [args \in BuildArgs |-> [t \in BuildTimes |->
        LET nc == Len(args.components)
            zone(k) ==
                LET z == args.zones[k]
                    inRange(i) == i >= 0 /\ i < nc
                    indices == IF Has(z, "containsIndices")
                               THEN SelectSeq(z.containsIndices, inRange) ELSE <<>>
                    containedComps == [j \in 1..Len(indices) |->
                                          BuiltComponents[args][t][indices[j] + 1]]
                    autoSize == CalculateZoneSizeForComponents(containedComps, 40)
                IN IF Len(containedComps) > 0
                   THEN Zone(MkId("zone", nc + k, t), autoSize.x, autoSize.y,
                             autoSize.width, autoSize.height)
                   ELSE Zone(MkId("zone", nc + k, t), 50, 50, 300, 200)
        IN Reverse([k \in 1..Len(args.zones) |-> zone(k)])]]

\* the arrows of args whose indices are in range
WantedArrows(args) ==
    LET nc == Len(args.components)
        valid(a) == a.from >= 0 /\ a.from < nc /\ a.to >= 0 /\ a.to < nc
    IN SelectSeq(args.arrows, valid)

\* arrows.forEach: arrows are no obstacles, so the router sees the zones and
\* the components
BuiltArrows ==
    [args \in BuildArgs |-> [t \in BuildTimes |->
        [j \in 1..Len(WantedArrows(args)) |->
            LET a == WantedArrows(args)[j]
                bestAnchors == CalculateBestAnchors(BuiltComponents[args][t][a.from + 1],
                                                    BuiltComponents[args][t][a.to + 1])
            IN Arrow(MkId("arrow", Len(args.components) + Len(args.zones) + j, t),
                     BuiltComponents[args][t][a.from + 1].id, bestAnchors.fromAnchor,
                     BuiltComponents[args][t][a.to + 1].id, bestAnchors.toAnchor,
                     CalculateAutoWaypoints(BuiltZones[args][t] \o BuiltComponents[args][t],
                         BuiltComponents[args][t][a.from + 1],
                         BuiltComponents[args][t][a.to + 1],
                         bestAnchors.fromAnchor, bestAnchors.toAnchor,
                         IF Has(a, "waypoints") THEN a.waypoints ELSE <<>>),
                     "solid")]]]

\* notes.forEach
BuiltNotes ==
    [args \in BuildArgs |-> [t \in BuildTimes |->
        [k \in 1..Len(args.notes) |->
            LET n == args.notes[k]
                size == CalculateNoteSize(n.titleLen, n.lineLens)
            IN Note(MkId("note", Len(args.components) + Len(args.zones)
                                   + Len(WantedArrows(args)) + k, t),
                    n.x, n.y, size.width, size.height)]]]

\* diagram.elements when build_diagram returns
Built ==
    [args \in BuildArgs |-> [t \in BuildTimes |->
        BuiltZones[args][t] \o BuiltComponents[args][t]
            \o BuiltArrows[args][t] \o BuiltNotes[args][t]]]

BuildDiagram ==
    /\ \E args \in BuildArgs, t \in now..MaxTime :
         /\ diagram' = [elements |-> Built[args][t], canvasSize |-> DefaultCanvas]
         /\ idCounter' = Len(Built[args][t])
         /\ now' = t
    /\ reply' = Answer("build_diagram", <<>>, "ok")
    /\ UNCHANGED <<route, editorVars, heap, dragState, linkVars>>

\* app.delete("/api/elements/:id")
HttpDeleteElement ==
    /\ \E id \in Targets :
         IF FindIndex(diagram.elements, id) = 0
         THEN /\ reply' = Answer("DELETE /api/elements/:id", id, "not_found")
              /\ UNCHANGED diagram
         ELSE /\ diagram' = [diagram EXCEPT !.elements = WithoutElement(@, id)]
              /\ reply' = Answer("DELETE /api/elements/:id", id, "ok")
    /\ UNCHANGED <<idCounter, now, route, editorVars, heap, dragState, linkVars>>

ToolCall ==
    \/ CreateDiagram
    \/ AddComponent
    \/ AddZone
    \/ AddArrow
    \/ AddNote
    \/ AddScenario
    \/ RemoveElement
    \/ UpdateElement
    \/ ResizeElement
    \/ LoadDiagram
    \/ GenerateArchitecture
    \/ BuildDiagram

ServerNext == ToolCall \/ HttpDeleteElement

ServerInit == ServerStart /\ route = NoRoute /\ heap = NoHeap /\ dragState = NoDrag /\ LinkStart /\ EditorStart

SpecServer == ServerInit /\ [][ServerNext]_vars

-----------------------------------------------------------------------------
(* Properties of the tool server                                           *)

Arrows(els) == {el \in Range(els) : el.type = "arrow"}
Shapes(els) == {el \in Range(els) : el.type # "arrow"}
\* the arrow has id as its from or as its to
RefersTo(arrow, id) == arrow.from = id \/ arrow.to = id
Resolves(els, id) == \E el \in Shapes(els) : el.id = id

\* C6: starting from the empty diagram, after any sequence of tool calls every
\* arrow of the diagram has from and to equal to the id of an element of the
\* same diagram that is not an arrow
ReferentialIntegrity ==
    \A arrow \in Arrows(diagram.elements) :
        Resolves(diagram.elements, arrow.from) /\ Resolves(diagram.elements, arrow.to)

\* C7: a call of add_arrow whose from or to matches no element of the diagram
\* adds nothing, leaves the diagram as it was and answers element-not-found
UnresolvableEndpointsAbort ==
    [][(reply'.op = "add_arrow"
        /\ ~(reply'.from \in Ids(diagram.elements) /\ reply'.to \in Ids(diagram.elements)))
       => (diagram' = diagram /\ reply'.status = "not_found")]_vars

\* C8: whenever remove_element(id) or DELETE /api/elements/:id reports
\* success, the diagram holds no element with that id, arrows included
RemoveRemovesNamed ==
    (reply.op \in {"remove_element", "DELETE /api/elements/:id"} /\ reply.status = "ok")
        => reply.id \notin Ids(diagram.elements)

-----------------------------------------------------------------------------
(* The editor: State and History                                           *)

MaxSaves == 3

\* History.maxSize
MaxSize == 50

\* History.cloneElement reads element.waypoints.map: it throws on an arrow
\* that has no waypoints
CloneThrows(els) == \E el \in Range(els) : el.type = "arrow" /\ ~Has(el, "waypoints")

HistoryPushUnbounded(stack, els) == Append(stack, els)
\* History.push on the undo stack
HistoryPush(stack, els) ==
    LET pushed == Append(stack, els)
    IN IF Len(pushed) > MaxSize THEN Tail(pushed) ELSE pushed

SaveToHistoryKeepingRedo(els) ==
    /\ undoStack' = IF CloneThrows(els) THEN undoStack ELSE HistoryPush(undoStack, els)
    /\ redoStack' = redoStack
\* State.saveToHistory with els the elements to save: a throw leaves both
\* stacks as they were
SaveToHistory(els) ==
    /\ undoStack' = IF CloneThrows(els) THEN undoStack ELSE HistoryPush(undoStack, els)
    /\ redoStack' = IF CloneThrows(els) THEN redoStack ELSE <<>>

\* Map.set: a known key keeps its place, a new key goes last
MapSet(els, el) ==
    IF el.id \in Ids(els)
    THEN [i \in 1..Len(els) |-> IF els[i].id = el.id THEN el ELSE els[i]]
    ELSE Append(els, el)
\* Map.delete of every key in ids
MapDelete(els, ids) == SelectSeq(els, LAMBDA el : el.id \notin ids)

\* Math.round(v / gridSize) * gridSize with gridSize 20, for v >= 0
Snap(v) == ((2 * v + 20) \div 40) * 20

\* State.calculateComponentSize at fontSize 14 with gridSnap on, in
\* hundredths of a pixel
StateCalculateComponentSize(nameLen, subLen) ==
    LET nameLines == (nameLen + 19) \div 20
        nameWidth == MinOf({nameLen, 20}) * 840
        subWidth == IF subLen > 0 THEN MinOf({subLen, 20}) * 714 ELSE 0
        width == MaxOf({10000, MaxOf({nameWidth, subWidth}) + 6000})
        height == MaxOf({8000, 6000 + 1960 * nameLines
                                 + (IF subLen > 0 THEN 1666 ELSE 0)})
    IN [width |-> CeilTo(width, 2000) \div 100, height |-> CeilTo(height, 2000) \div 100]

\* the elements the toolbar and the canvas make: createComponent(150, 150),
\* createZone(100, 100), createNote(200, 200), and createArrow between the
\* first and the last shape, either way round
NewElements(t) ==
    LET id(prefix) == MkId(prefix, stateIdCounter + 1, t)
        size == StateCalculateComponentSize(9, 0)
        shapes == SelectSeq(elements, LAMBDA el : el.type # "arrow")
        ends == IF Len(shapes) = 0 THEN {}
                ELSE {<<shapes[1].id, shapes[Len(shapes)].id>>,
                      <<shapes[Len(shapes)].id, shapes[1].id>>}
    IN {Component(id("comp"), Snap(150), Snap(150), size.width, size.height),
        Zone(id("zone"), Snap(100), Snap(100), 200, 150),
        Note(id("note"), Snap(200), Snap(200), 150, 100)}
       \cup {Arrow(id("arrow"), e[1], "right", e[2], "left", <<>>, "solid") : e \in ends}

\* success: the call returned (and, for fromJSON and validateJSON, what it
\* returned); FALSE when saveToHistory threw
Outcome(op, success) == [op |-> op, success |-> success]
\* histories are followed while they are short, and at capacity, where a
\* push does not make them longer
CanSave == Len(undoStack) < MaxSaves \/ Len(undoStack) = MaxSize

\* the editor's clock stands still: its ids differ by the counter
AddElement ==
    /\ CanSave /\ Len(elements) < MaxElements /\ stateIdCounter < MaxIds
    /\ \E element \in NewElements(now) :
         /\ elements' = MapSet(elements, element)
         /\ SaveToHistory(MapSet(elements, element))
    /\ stateIdCounter' = stateIdCounter + 1
    /\ outcome' = Outcome("addElement", ~CloneThrows(elements'))
    /\ UNCHANGED <<selectedIds, canvasSize, clipboard, now, serverVars, route, heap, dragState, linkVars>>

\* State.select(id, addToSelection) on the first element
Select ==
    /\ \E i \in {1} \cap DOMAIN elements, addToSelection \in BOOLEAN :
       \E id \in {elements[i].id} :
         selectedIds' = (IF addToSelection THEN selectedIds ELSE {}) \cup {id}
    /\ outcome' = Outcome("select", TRUE)
    /\ UNCHANGED <<elements, canvasSize, clipboard, undoStack, redoStack,
                   stateIdCounter, now, serverVars, route, heap, dragState, linkVars>>

ElementsAfterDeleteNoCascade(els, id) == MapDelete(els, {id})
\* the elements after the deletes of State.deleteElement(id)
ElementsAfterDelete(els, id) ==
    LET isArrow == \E el \in Range(els) : el.id = id /\ el.type = "arrow"
        connected == {el.id : el \in {a \in Arrows(els) : RefersTo(a, id)}}
    IN MapDelete(els, (IF isArrow THEN {} ELSE connected) \cup {id})

DeleteElement ==
    /\ CanSave
    /\ \E id \in Ids(elements) \cup {GhostId} :
         /\ elements' = ElementsAfterDelete(elements, id)
         /\ selectedIds' = selectedIds \ {id}
         /\ SaveToHistory(ElementsAfterDelete(elements, id))
         /\ outcome' = [op |-> "deleteElement", success |-> ~CloneThrows(elements'),
                         id |-> id]
    /\ UNCHANGED <<canvasSize, clipboard, stateIdCounter, now, serverVars, route, heap, dragState, linkVars>>

\* deleteSelected's walk over the elements from index i on: an arrow joins
\* toDelete when its from or its to is in toDelete by then
RECURSIVE CollectToDelete(_, _, _)
CollectToDelete(els, i, toDelete) ==
    IF i > Len(els) THEN toDelete
    ELSE CollectToDelete(els, i + 1,
            IF els[i].type = "arrow" /\ (els[i].from \in toDelete \/ els[i].to \in toDelete)
            THEN toDelete \cup {els[i].id} ELSE toDelete)

DeleteSelected ==
    /\ CanSave
    /\ selectedIds # {}
    /\ elements' = MapDelete(elements, CollectToDelete(elements, 1, selectedIds))
    /\ selectedIds' = {}
    /\ SaveToHistory(MapDelete(elements, CollectToDelete(elements, 1, selectedIds)))
    /\ outcome' = Outcome("deleteSelected", ~CloneThrows(elements'))
    /\ UNCHANGED <<canvasSize, clipboard, stateIdCounter, now, serverVars, route, heap, dragState, linkVars>>

ClearSelection ==
    /\ selectedIds # {}
    /\ selectedIds' = {}
    /\ outcome' = Outcome("clearSelection", TRUE)
    /\ UNCHANGED <<elements, canvasSize, clipboard, undoStack, redoStack,
                   stateIdCounter, now, serverVars, route, heap, dragState, linkVars>>

\* State.undo popped one entry more than History.undo does: the oldest
\* entry goes too and the elements become empty
UndoPastOldest ==
    /\ Len(undoStack) > 0
    /\ undoStack' = SubSeq(undoStack, 1, Len(undoStack) - 1)
    /\ redoStack' = Append(redoStack, undoStack[Len(undoStack)])
    /\ elements' = IF Len(undoStack) > 1 THEN undoStack[Len(undoStack) - 1] ELSE <<>>
    /\ selectedIds' = {}
    /\ outcome' = Outcome("undo", TRUE)
    /\ UNCHANGED <<canvasSize, clipboard, stateIdCounter, now, serverVars, route, heap, dragState, linkVars>>
\* State.undo: History.undo returns null, and nothing changes, when at most
\* one entry is left; success says that it returned a Map
Undo ==
    /\ IF Len(undoStack) <= 1
       THEN /\ outcome' = Outcome("undo", FALSE)
            /\ UNCHANGED <<elements, selectedIds, undoStack, redoStack>>
       ELSE /\ undoStack' = SubSeq(undoStack, 1, Len(undoStack) - 1)
            /\ redoStack' = Append(redoStack, undoStack[Len(undoStack)])
            /\ elements' = undoStack[Len(undoStack) - 1]
            /\ selectedIds' = {}
            /\ outcome' = [op |-> "undo", success |-> TRUE, before |-> elements,
                            recorded |-> elements = undoStack[Len(undoStack)],
                            follows |-> outcome.op]
    /\ UNCHANGED <<canvasSize, clipboard, stateIdCounter, now, serverVars, route, heap, dragState, linkVars>>

\* State.redo with a History.redo that pops the entry and does not push it
\* onto the undo stack
RedoNotRecorded ==
    /\ IF Len(redoStack) = 0
       THEN /\ outcome' = Outcome("redo", FALSE)
            /\ UNCHANGED <<elements, selectedIds, undoStack, redoStack>>
       ELSE /\ redoStack' = SubSeq(redoStack, 1, Len(redoStack) - 1)
            /\ undoStack' = undoStack
            /\ elements' = redoStack[Len(redoStack)]
            /\ selectedIds' = {}
            /\ outcome' = [op |-> "redo", success |-> TRUE, before |-> elements,
                            recorded |-> elements = undoStack[Len(undoStack)],
                            follows |-> outcome.op]
    /\ UNCHANGED <<canvasSize, clipboard, stateIdCounter, now, serverVars, route, heap, dragState, linkVars>>
\* State.redo: History.redo returns null when the redo stack is empty.
\* The outcome of an undo or redo that acted notes the elements before it,
\* whether they were the newest entry of the undo stack, and the operation
\* it follows
Redo ==
    /\ IF Len(redoStack) = 0
       THEN /\ outcome' = Outcome("redo", FALSE)
            /\ UNCHANGED <<elements, selectedIds, undoStack, redoStack>>
       ELSE /\ redoStack' = SubSeq(redoStack, 1, Len(redoStack) - 1)
            /\ undoStack' = Append(undoStack, redoStack[Len(redoStack)])
            /\ elements' = redoStack[Len(redoStack)]
            /\ selectedIds' = {}
            /\ outcome' = [op |-> "redo", success |-> TRUE, before |-> elements,
                            recorded |-> elements = undoStack[Len(undoStack)],
                            follows |-> outcome.op]
    /\ UNCHANGED <<canvasSize, clipboard, stateIdCounter, now, serverVars, route, heap, dragState, linkVars>>

ElementTypes == {"zone", "component", "arrow", "note", "scenario"}

\* validateJSON on a document: parses says whether JSON.parse returns,
\* isObject whether it returns a non-null object, elements is there when
\* data.elements is an array; an element is the record of its fields
ValidateJSON(doc) ==
    LET bad(el) ==
            \/ ~Has(el, "id")
            \/ ~Has(el, "type")
            \/ el.type \notin ElementTypes
            \/ (el.type = "arrow" /\ (~Has(el, "from") \/ ~Has(el, "to")))
            \/ (el.type # "arrow" /\ (~Has(el, "x") \/ ~Has(el, "y")))
    IN /\ doc.parses
       /\ doc.isObject
       /\ Has(doc, "elements")
       /\ \A i \in 1..Len(doc.elements) : ~bad(doc.elements[i])

\* data.elements.forEach(el => this.elements.set(el.id, el)) on an empty Map
RECURSIVE MapOf(_)
MapOf(list) ==
    IF list = <<>> THEN <<>>
    ELSE MapSet(MapOf(SubSeq(list, 1, Len(list) - 1)), list[Len(list)])

\* the canvas size after expandCanvasToFitElements
ExpandCanvasToFitElements(size, els) ==
    LET maxRight == MaxOf({size.width} \cup {el.x + WidthOf(el) + 100 : el \in Shapes(els)})
        maxBottom == MaxOf({size.height} \cup {el.y + HeightOf(el) + 100 : el \in Shapes(els)})
    IN [width |-> maxRight, height |-> maxBottom]

\* the record el without its field f
Without(el, f) == [g \in DOMAIN el \ {f} |-> el[g]]

Doc(els) == [parses |-> TRUE, isObject |-> TRUE, elements |-> els]

\* the documents given to fromJSON: text that is no JSON, JSON that is no
\* object, an object without an elements array, the export of two components
\* joined both ways with a canvas of 600 x 400, and the export of the two
\* joined one way with one record changed: a type that is none of the five, a component without x, an arrow
\* without from, a style that is neither solid nor dashed, and an arrow
\* without waypoints
ImportDocs ==
    {[parses |-> FALSE, isObject |-> FALSE],
     [parses |-> TRUE, isObject |-> FALSE],
     [parses |-> TRUE, isObject |-> TRUE],
     [parses |-> TRUE, isObject |-> TRUE,
      elements |-> <<SavedA, SavedB, SavedArrow, SavedBack>>,
      canvasSize |-> [width |-> 600, height |-> 400]],
     Doc(<<SavedA, Assign(SavedB, [type |-> "circle"])>>),
     Doc(<<SavedA, Without(SavedB, "x")>>),
     Doc(<<SavedA, SavedB, Without(SavedArrow, "from")>>),
     Doc(<<SavedA, SavedB, Assign(SavedArrow, [style |-> "dotted"])>>),
     Doc(<<SavedA, SavedB, Without(SavedArrow, "waypoints")>>)}

\* State.fromJSON: validateJSON, then the replacement inside try; a throw of
\* saveToHistory is caught and answered with success false
FromJSON ==
    /\ \E doc \in ImportDocs :
         IF ~ValidateJSON(doc)
         THEN /\ outcome' = Outcome("fromJSON", FALSE)
              /\ UNCHANGED <<elements, selectedIds, canvasSize, undoStack, redoStack>>
         ELSE LET loaded == MapOf(doc.elements)
                  size == IF Has(doc, "canvasSize") THEN doc.canvasSize ELSE canvasSize
              IN /\ CanSave \/ CloneThrows(loaded)
                 /\ elements' = loaded
                 /\ canvasSize' = ExpandCanvasToFitElements(size, loaded)
                 /\ selectedIds' = {}
                 /\ SaveToHistory(loaded)
                 /\ outcome' = IF CloneThrows(loaded) THEN Outcome("fromJSON", FALSE)
                                ELSE [op |-> "fromJSON", success |-> TRUE, accepted |-> doc]
    /\ UNCHANGED <<clipboard, stateIdCounter, now, serverVars, route, heap, dragState, linkVars>>

EditorNext ==
    \/ AddElement
    \/ Select
    \/ ClearSelection
    \/ DeleteElement
    \/ DeleteSelected
    \/ Undo
    \/ Redo
    \/ FromJSON

EditorInit == EditorStart /\ ServerStart /\ route = NoRoute /\ heap = NoHeap /\ dragState = NoDrag /\ LinkStart

SpecEditor == EditorInit /\ [][EditorNext]_vars

\* the server and the editor are two processes: each is followed from the
\* start with the other at rest
AppNext ==
    \/ outcome.op = "none" /\ ServerNext
    \/ reply.op = "none" /\ EditorNext

SpecApp == EditorInit /\ [][AppNext]_vars


-----------------------------------------------------------------------------
(* Properties of the editor and of deletion on both sides                  *)

\* the arrows of els that have id as from or as to
Connected(els, id) == {a \in Arrows(els) : RefersTo(a, id)}

\* the ids a step asks to delete, and the elements before and after it
Deletion ==
    IF reply'.op = "remove_element" /\ reply'.status = "ok"
    THEN [ids |-> {reply'.id}, before |-> diagram.elements, after |-> diagram'.elements]
    ELSE IF outcome'.op = "deleteElement"
    THEN [ids |-> {outcome'.id}, before |-> elements, after |-> elements']
    ELSE IF outcome'.op = "deleteSelected"
    THEN [ids |-> selectedIds, before |-> elements, after |-> elements']
    ELSE [ids |-> {}, before |-> <<>>, after |-> <<>>]

\* C5: when State.deleteElement, State.deleteSelected or remove_element
\* deletes a shape that arrows have as from or to, the shape and every one of
\* those arrows are gone afterwards: no shape that is left has the deleted id
\* and no arrow that is left has it as from or to
CascadeDelete ==
    [][\A id \in Deletion.ids \cap ShapeIds(Deletion.before) :
          /\ id \notin ShapeIds(Deletion.after)
          /\ Connected(Deletion.after, id) = {}]_vars

\* State.deleteElement has just deleted a shape that two arrows or more had
\* as from or to: the entry saved before it shows them
CascadeDeleteHappened ==
    /\ outcome.op = "deleteElement"
    /\ outcome.success
    /\ Len(undoStack) >= 2
    /\ LET before == undoStack[Len(undoStack) - 1]
       IN /\ outcome.id \in ShapeIds(before)
          /\ Cardinality(Connected(before, outcome.id)) >= 2
          /\ elements = MapDelete(before,
                 {outcome.id} \cup {a.id : a \in Connected(before, outcome.id)})
          /\ elements = undoStack[Len(undoStack)]

\* C9: whenever State.fromJSON returns success false, the elements, the canvas
\* size, the selection and the undo and redo stacks are what they were before
\* the call
FailedImportLeavesState ==
    [][(outcome'.op = "fromJSON" /\ ~outcome'.success)
       => UNCHANGED <<elements, canvasSize, selectedIds, undoStack, redoStack>>]_vars

\* an element record that is against the Diagram JSON format
ViolatesFormat(el) ==
    \/ ~Has(el, "type")
    \/ el.type \notin {"component", "zone", "arrow", "note", "scenario"}
    \/ el.type # "arrow" /\ ~(Has(el, "x") /\ Has(el, "y"))
    \/ /\ el.type = "arrow"
       /\ \/ ~Has(el, "from")
          \/ ~Has(el, "to")
          \/ Has(el, "waypoints")
               /\ \E p \in Range(el.waypoints) : ~(Has(p, "x") /\ Has(p, "y"))
          \/ Has(el, "fromAnchor") /\ el.fromAnchor \notin {"top", "bottom", "left", "right"}
          \/ Has(el, "toAnchor") /\ el.toAnchor \notin {"top", "bottom", "left", "right"}
          \/ Has(el, "startMarker") /\ el.startMarker \notin {"none", "arrow", "circle"}
          \/ Has(el, "endMarker") /\ el.endMarker \notin {"none", "arrow", "circle"}
          \/ Has(el, "style") /\ el.style \notin {"solid", "dashed"}

\* C10: fromJSON accepts no document that has an element record against the
\* Diagram JSON format
ImportValidation ==
    (outcome.op = "fromJSON" /\ outcome.success)
        => \A el \in Range(outcome.accepted.elements) : ~ViolatesFormat(el)


-----------------------------------------------------------------------------
(* Export and import of the editor's own document                          *)

\* State.toJSON: the values of the Map in insertion order and the canvas
\* size, as JSON.parse reads the text back
ToJSON(els, size) ==
    [parses |-> TRUE, isObject |-> TRUE,
     elements |-> [i \in 1..Len(els) |-> els[i]], canvasSize |-> size]

\* fromJSON(toJSON()) on the State as it is
RoundTrip ==
    /\ \E doc \in {ToJSON(elements, canvasSize)} :
         IF ~ValidateJSON(doc)
         THEN /\ outcome' = Outcome("roundTrip", FALSE)
              /\ UNCHANGED <<elements, selectedIds, canvasSize, undoStack, redoStack>>
         ELSE /\ CanSave \/ CloneThrows(MapOf(doc.elements))
              /\ elements' = MapOf(doc.elements)
              /\ canvasSize' = ExpandCanvasToFitElements(doc.canvasSize, MapOf(doc.elements))
              /\ selectedIds' = {}
              /\ SaveToHistory(MapOf(doc.elements))
              /\ outcome' = Outcome("roundTrip", ~CloneThrows(MapOf(doc.elements)))
    /\ UNCHANGED <<clipboard, stateIdCounter, now, serverVars, route, heap, dragState, linkVars>>

DocumentNext ==
    \/ AddElement
    \/ DeleteElement
    \/ FromJSON
    \/ RoundTrip

SpecDocument == EditorInit /\ [][DocumentNext]_vars

\* the canvas reaches 100 beyond the right and the bottom edge of every shape
ContainsContent(size, els) ==
    \A el \in Shapes(els) :
        /\ size.width >= el.x + WidthOf(el) + 100
        /\ size.height >= el.y + HeightOf(el) + 100

\* C11: on every diagram State can hold, fromJSON(toJSON()) succeeds, leaves
\* the elements as they were, field for field and in the same order, and
\* leaves the canvas size as it was or grown so that it contains all content
RoundTripReproduces ==
    [][outcome'.op = "roundTrip"
       => /\ outcome'.success
          /\ elements' = elements
          /\ \/ canvasSize' = canvasSize
             \/ /\ canvasSize'.width >= canvasSize.width
                /\ canvasSize'.height >= canvasSize.height
                /\ ContainsContent(canvasSize', elements')]_vars


-----------------------------------------------------------------------------
(* The history at capacity                                                 *)

MaxEdits == 3

\* the component createComponent(150, 150) makes, after edits of its x in
\* the properties panel that each add 20
Edited(edits) ==
    LET size == StateCalculateComponentSize(9, 0)
    IN Component(MkId("comp", 1, 0), Snap(150) + 20 * edits, Snap(150),
                 size.width, size.height)

\* PropertiesPanel: a new x for the first shape, by
\* State.updateElementWithHistory(id, {x: value}); edits are not followed
\* once saveToHistory throws, where nothing would count them
EditProperty ==
    /\ CanSave /\ ~CloneThrows(elements)
    /\ \E el \in {elements[i] : i \in {j \in DOMAIN elements :
                      /\ elements[j].type # "arrow"
                      /\ \A k \in 1..(j - 1) : elements[k].type = "arrow"}} :
         /\ el.x < Snap(150) + 20 * (MaxSize - 2 + MaxEdits)
         /\ elements' = MapSet(elements, Assign(el, [x |-> el.x + 20]))
         /\ SaveToHistory(MapSet(elements, Assign(el, [x |-> el.x + 20])))
    /\ outcome' = Outcome("updateElementWithHistory", TRUE)
    /\ UNCHANGED <<selectedIds, canvasSize, clipboard, stateIdCounter, now,
                   serverVars, route, heap, dragState, linkVars>>

\* the State after addComponent and MaxSize - 2 edits of x: the undo stack
\* holds the empty diagram and one entry for each of them, MaxSize in all
HistoryInit ==
    /\ ServerStart
    /\ route = NoRoute /\ heap = NoHeap /\ dragState = NoDrag /\ LinkStart
    /\ elements = <<Edited(MaxSize - 2)>>
    /\ selectedIds = {Edited(0).id}
    /\ canvasSize = DefaultCanvas
    /\ clipboard = <<>>
    /\ undoStack = [k \in 1..MaxSize |->
                        IF k = 1 THEN <<>> ELSE <<Edited(k - 2)>>]
    /\ redoStack = <<>>
    /\ stateIdCounter = 1
    /\ outcome = Outcome("updateElementWithHistory", TRUE)

HistoryNext ==
    \/ EditProperty
    \/ Undo
    \/ Redo

SpecHistory == HistoryInit /\ [][HistoryNext]_vars

\* C12: the undo stack never holds more than 50 entries, and a push onto 50
\* entries drops the oldest and keeps the other 49, in order, with the new
\* one last
BoundedHistory ==
    [][/\ Len(undoStack') <= 50
       /\ (outcome'.op = "updateElementWithHistory" /\ Len(undoStack) = 50)
            => undoStack' = Append(Tail(undoStack), elements')]_vars

\* a push has dropped the oldest entry, the empty diagram
OldestEvicted ==
    /\ outcome.op = "updateElementWithHistory"
    /\ Len(undoStack) = 50
    /\ undoStack[1] # <<>>
    /\ undoStack[50] = elements

\* C13: undo with one entry left and redo with an empty redo stack leave the
\* elements, the selection and both stacks as they are, also after more than
\* 50 recorded actions
HistoryBoundariesAreNoOps ==
    [][(\/ outcome'.op = "undo" /\ Len(undoStack) <= 1
        \/ outcome'.op = "redo" /\ Len(redoStack) = 0)
       => UNCHANGED <<elements, selectedIds, undoStack, redoStack>>]_vars

\* after 51 recorded actions or more, undo has been repeated down to the
\* oldest entry that is left and once more
UndoneToOldest ==
    /\ outcome = Outcome("undo", FALSE)
    /\ Len(undoStack) = 1
    /\ undoStack[1] # <<>>
    /\ undoStack[1][1].x > Edited(0).x
    /\ elements = undoStack[1]
    /\ Len(redoStack) = 49


-----------------------------------------------------------------------------
(* The operations that record history                                      *)

\* this.elements.set of each of new in turn
RECURSIVE MapSetAll(_, _)
MapSetAll(els, new) ==
    IF new = <<>> THEN els ELSE MapSetAll(MapSet(els, Head(new)), Tail(new))

\* State.paste kept the position of the copies
PastedInPlace(clip, counter, t) ==
    [k \in 1..Len(clip) |-> Assign(clip[k], [id |-> MkId(clip[k].type, counter + k, t)])]
\* the new elements of State.paste, in the order of the clipboard
Pasted(clip, counter, t) ==
    [k \in 1..Len(clip) |->
        LET newElement == Assign(clip[k], [id |-> MkId(clip[k].type, counter + k, t)])
        IN IF newElement.type # "arrow"
           THEN Assign(newElement, [x |-> newElement.x + 20, y |-> newElement.y + 20])
           ELSE newElement]

\* State.paste
Paste ==
    /\ IF Len(clipboard) = 0
       THEN /\ outcome' = Outcome("paste", FALSE)
            /\ UNCHANGED <<elements, selectedIds, undoStack, redoStack, stateIdCounter>>
       ELSE /\ CanSave
            /\ Len(elements) < MaxElements
            /\ stateIdCounter < MaxIds
            /\ \E new \in {Pasted(clipboard, stateIdCounter, now)} :
                 /\ elements' = MapSetAll(elements, new)
                 /\ selectedIds' = Ids(new)
                 /\ SaveToHistory(MapSetAll(elements, new))
            /\ stateIdCounter' = stateIdCounter + Len(clipboard)
            /\ outcome' = Outcome("paste", ~CloneThrows(elements'))
    /\ UNCHANGED <<canvasSize, clipboard, now, serverVars, route, heap, dragState, linkVars>>

\* moveSelected re-shaped the arrows at the moved shapes: their waypoints
\* move along
MovedWithArrows(els, ids, dx, dy) ==
    [i \in 1..Len(els) |->
        IF els[i].id \in ids /\ els[i].type # "arrow"
        THEN Assign(els[i], [x |-> Snap(els[i].x + dx), y |-> Snap(els[i].y + dy)])
        ELSE IF els[i].type = "arrow" /\ (els[i].from \in ids \/ els[i].to \in ids)
        THEN Assign(els[i], [waypoints |->
                 [k \in DOMAIN els[i].waypoints |->
                     Pt(els[i].waypoints[k].x + dx, els[i].waypoints[k].y + dy)]])
        ELSE els[i]]
\* the elements after State.moveSelected(dx, dy) with gridSnap on
Moved(els, ids, dx, dy) ==
    [i \in 1..Len(els) |->
        IF els[i].id \in ids /\ els[i].type # "arrow"
        THEN Assign(els[i], [x |-> Snap(els[i].x + dx), y |-> Snap(els[i].y + dy)])
        ELSE els[i]]

\* SessionManager.handleKeyDown on ArrowRight: moveSelected(20, 0), then
\* saveToHistory; not followed once saveToHistory throws
ArrowKeyMove ==
    /\ CanSave /\ ~CloneThrows(elements)
    /\ elements' = Moved(elements, selectedIds, 20, 0)
    /\ SaveToHistory(Moved(elements, selectedIds, 20, 0))
    /\ outcome' = Outcome("saveToHistory", TRUE)
    /\ UNCHANGED <<selectedIds, canvasSize, clipboard, stateIdCounter, now,
                   serverVars, route, heap, dragState, linkVars>>

\* the State after the toolbar's addComponent (createComponent, addElement,
\* select) and copySelected
RecordingInit ==
    /\ ServerStart
    /\ route = NoRoute /\ heap = NoHeap /\ dragState = NoDrag /\ LinkStart
    /\ elements = <<Edited(0)>>
    /\ selectedIds = {Edited(0).id}
    /\ canvasSize = DefaultCanvas
    /\ clipboard = <<Edited(0)>>
    /\ undoStack = << <<>>, <<Edited(0)>> >>
    /\ redoStack = <<>>
    /\ stateIdCounter = 1
    /\ outcome = Outcome("copySelected", TRUE)

RecordingNext ==
    \/ AddElement
    \/ Paste
    \/ DeleteElement
    \/ DeleteSelected
    \/ EditProperty
    \/ ArrowKeyMove
    \/ FromJSON
    \/ Undo
    \/ Redo

SpecRecording == RecordingInit /\ [][RecordingNext]_vars

RecordingOps ==
    {"addElement", "deleteElement", "deleteSelected", "paste",
     "updateElementWithHistory", "fromJSON", "saveToHistory"}

-----------------------------------------------------------------------------
(* calculateBestAnchors on its own                                         *)

\* the two shapes of a call: a component at the origin, and a second one on
\* a grid around it, the origin included
AnchorFroms == {Component(MkId("comp", 1, 0), 0, 0, w, 80) : w \in {100, 200}}
AnchorTos ==
    {Component(MkId("comp", 2, 0), px, py, s[1], s[2]) :
        px \in {-300, -150, -50, 0, 50, 150, 300}, py \in {-200, -100, 0, 100, 200},
        s \in {<<100, 80>>, <<60, 120>>}}

CallBestAnchors ==
    /\ \E fromElement \in AnchorFroms, toElement \in AnchorTos :
         route' = [called |-> TRUE, fn |-> "calculateBestAnchors",
                   fromElement |-> fromElement, toElement |-> toElement,
                   result |-> CalculateBestAnchors(fromElement, toElement)]
    /\ UNCHANGED <<serverVars, now, editorVars, heap, dragState, linkVars>>

SpecAnchors == ServerInit /\ [][CallBestAnchors]_vars

AnchorPairs == AnchorSet \X AnchorSet
OppositePairs == {<<"right", "left">>, <<"left", "right">>,
                  <<"bottom", "top">>, <<"top", "bottom">>}

\* the point of the anchor on the shape
AnchorAt(el, anchor) ==
    CASE anchor = "top" -> Pt(el.x + el.width \div 2, el.y)
      [] anchor = "bottom" -> Pt(el.x + el.width \div 2, el.y + el.height)
      [] anchor = "left" -> Pt(el.x, el.y + el.height \div 2)
      [] anchor = "right" -> Pt(el.x + el.width, el.y + el.height \div 2)

\* the square of the Euclidean distance between the two anchor points
Distance2(fromElement, toElement, pair) ==
    LET p == AnchorAt(fromElement, pair[1])
        q == AnchorAt(toElement, pair[2])
    IN (q.x - p.x) * (q.x - p.x) + (q.y - p.y) * (q.y - p.y)

\* 25 times the square of the adjusted cost: the distance, times 1.2 unless
\* the pair is opposite-facing
Cost2(fromElement, toElement, pair) ==
    IF pair \in OppositePairs THEN 25 * Distance2(fromElement, toElement, pair)
    ELSE 36 * Distance2(fromElement, toElement, pair)

\* the place of a pair in the order from-anchor (top, bottom, left, right),
\* then to-anchor (top, bottom, left, right)
PlaceOf(pair) ==
    LET at(a) == CHOOSE i \in 1..4 : <<"top", "bottom", "left", "right">>[i] = a
    IN 4 * (at(pair[1]) - 1) + at(pair[2])

RouteResultPair == <<route.result.fromAnchor, route.result.toAnchor>>

\* C15: calculateBestAnchors returns a pair whose adjusted cost is at most
\* that of each of the 16 pairs, and the first such pair in the order of
\* iteration
AnchorsMinimiseCost ==
    (route.called /\ route.fn = "calculateBestAnchors")
        => \A pair \in AnchorPairs :
              /\ Cost2(route.fromElement, route.toElement, RouteResultPair)
                    <= Cost2(route.fromElement, route.toElement, pair)
              /\ Cost2(route.fromElement, route.toElement, pair)
                    = Cost2(route.fromElement, route.toElement, RouteResultPair)
                 => PlaceOf(RouteResultPair) <= PlaceOf(pair)

\* a call on two shapes of the same position and size
AnchorsOfIdenticalShapes ==
    /\ route.called
    /\ route.fn = "calculateBestAnchors"
    /\ route.fromElement.x = route.toElement.x
    /\ route.fromElement.y = route.toElement.y
    /\ route.fromElement.width = route.toElement.width
    /\ route.fromElement.height = route.toElement.height
    /\ RouteResultPair = <<"top", "top">>

\* C16: calculateBestAnchors returns an opposite-facing pair, and one whose
\* anchor points are nearest to each other among the four opposite-facing
\* pairs
AnchorSymmetry ==
    (route.called /\ route.fn = "calculateBestAnchors")
        => /\ RouteResultPair \in OppositePairs
           /\ \A pair \in OppositePairs :
                 Distance2(route.fromElement, route.toElement, RouteResultPair)
                    <= Distance2(route.fromElement, route.toElement, pair)


-----------------------------------------------------------------------------
(* cleanupWaypoints on its own                                             *)

MaxWaypoints == 3

\* waypoints from a grid that has points nearer than 10 to each other and
\* points on one line
CleanupPoints == {Pt(px, py) : px \in {0, 5, 50}, py \in {0, 5, 50}}
CleanupFrom == Pt(0, 0)
CleanupTos == {Pt(100, 50), Pt(50, 100)}

RECURSIVE WaypointLists(_)
WaypointLists(n) ==
    IF n = 0 THEN {<<>>}
    ELSE WaypointLists(n - 1)
         \cup {Append(w, p) : w \in {v \in WaypointLists(n - 1) : Len(v) = n - 1},
                              p \in CleanupPoints}

\* cleanupWaypoints(W, from, to), and cleanupWaypoints of its result
CallCleanup ==
    /\ \E waypoints \in WaypointLists(MaxWaypoints), to \in CleanupTos :
       \E cleaned \in {CleanupWaypoints(waypoints, CleanupFrom, to)} :
         route' = [called |-> TRUE, fn |-> "cleanupWaypoints",
                   waypoints |-> waypoints, from |-> CleanupFrom, to |-> to,
                   result |-> cleaned,
                   again |-> CleanupWaypoints(cleaned, CleanupFrom, to)]
    /\ UNCHANGED <<serverVars, now, editorVars, heap, dragState, linkVars>>

SpecCleanup == ServerInit /\ [][CallCleanup]_vars

\* C17: cleanupWaypoints of the result of cleanupWaypoints, with the same
\* endpoints, is that result
CleanupIdempotent ==
    (route.called /\ route.fn = "cleanupWaypoints") => route.again = route.result


-----------------------------------------------------------------------------
(* The canvas and its content                                              *)

\* the drags of the corner handle of the canvas, in pixels at zoom 1
CanvasDrags == {<<-1000, -600>>, <<-400, 0>>}

\* SessionManager.updateCanvasResize with the corner handle, then
\* Canvas.setCanvasSize
ResizeCanvas ==
    /\ \E drag \in CanvasDrags :
       \E newWidth \in {Snap(MaxOf({400, canvasSize.width + drag[1]}))},
          newHeight \in {Snap(MaxOf({300, canvasSize.height + drag[2]}))} :
         canvasSize' = [width |-> MaxOf({400, newWidth}),
                         height |-> MaxOf({300, newHeight})]
    /\ outcome' = Outcome("setCanvasSize", TRUE)
    /\ UNCHANGED <<elements, selectedIds, clipboard, undoStack, redoStack,
                   stateIdCounter, now, serverVars, route, heap, dragState, linkVars>>

CanvasNext ==
    \/ AddElement
    \/ FromJSON
    \/ ArrowKeyMove
    \/ ResizeCanvas
    \/ Undo
    \/ Redo

SpecCanvas == EditorInit /\ [][CanvasNext]_vars

\* C18: the canvas is at least as wide as the right edge, and at least as
\* high as the bottom edge, of every element that is not a connector (a
\* margin of 0, the least the claim can mean)
CanvasContainsContent ==
    \A el \in Shapes(elements) :
        /\ canvasSize.width >= el.x + WidthOf(el)
        /\ canvasSize.height >= el.y + HeightOf(el)


-----------------------------------------------------------------------------
(* Identities on the server                                                *)

\* the bodies of POST /api/elements: an element without id, and one that
\* carries the id of the first component the server made
PostBodies ==
    {[type |-> "component", x |-> 100, y |-> 300, width |-> 100, height |-> 80],
     Component(MkId("comp", 1, 0), 300, 300, 100, 80)}

\* app.post("/api/elements")
HttpPostElement ==
    /\ Len(diagram.elements) < MaxElements
    /\ \E body \in PostBodies :
         IF Has(body, "id")
         THEN /\ diagram' = [diagram EXCEPT !.elements = Append(@, body)]
              /\ reply' = Answer("POST /api/elements", body.id, "ok")
              /\ UNCHANGED <<idCounter, now>>
         ELSE /\ idCounter < MaxIds
              /\ \E t \in now..MaxTime :
                 \E id \in {GenerateId(IF Has(body, "type") THEN body.type ELSE "el", t)} :
                   /\ diagram' = [diagram EXCEPT
                                     !.elements = Append(@, Assign(body, [id |-> id]))]
                   /\ reply' = Answer("POST /api/elements", id, "ok")
                   /\ now' = t
              /\ idCounter' = idCounter + 1
    /\ UNCHANGED <<route, editorVars, heap, dragState, linkVars>>

IdsNext ==
    \/ CreateDiagram
    \/ AddComponent
    \/ AddArrow
    \/ RemoveElement
    \/ LoadDiagram
    \/ BuildDiagram
    \/ HttpPostElement
    \/ HttpDeleteElement

SpecIds == ServerInit /\ [][IdsNext]_vars

\* C19: no two elements of the server's diagram have the same id
UniqueIdentities ==
    \A i, j \in DOMAIN diagram.elements :
        diagram.elements[i].id = diagram.elements[j].id => i = j


-----------------------------------------------------------------------------
(* Routes after a move or a resize on the server                           *)

\* the tools that make arrows without waypoints from the caller, and the
\* tools that change shapes
RerouteNext ==
    \/ CreateDiagram
    \/ AddComponent
    \/ GenerateArchitecture
    \/ BuildDiagram
    \/ RemoveElement
    \/ UpdateElement
    \/ ResizeElement

SpecReroute == ServerInit /\ [][RerouteNext]_vars

\* the arrows of els that start or end at the shape id and have both ends
AttachedArrows(els, id) ==
    {el \in Range(els) : /\ el.type = "arrow"
                         /\ (el.from = id \/ el.to = id)
                         /\ el.from \in ShapeIds(els)
                         /\ el.to \in ShapeIds(els)}

\* what the router computes for the arrow on els
RouterWaypoints(els, arrow) ==
    CalculateAutoWaypoints(els, els[FindIndex(els, arrow.from)],
                           els[FindIndex(els, arrow.to)],
                           arrow.fromAnchor, arrow.toAnchor, <<>>)

\* C20: after update_element or resize_element has changed a shape, every
\* arrow attached to the shape (none of them has waypoints from a caller
\* here) has the waypoints the router computes on the new diagram
ReroutedAfterMutation ==
    [][(/\ reply'.op \in {"update_element", "resize_element"}
        /\ reply'.status = "ok"
        /\ reply'.id \in ShapeIds(diagram.elements)
        /\ diagram'.elements # diagram.elements)
          => \A arrow \in AttachedArrows(diagram'.elements, reply'.id) :
                arrow.waypoints = RouterWaypoints(diagram'.elements, arrow)]_vars


-----------------------------------------------------------------------------
(* Waypoints that a user has set                                           *)

\* a diagram saved before the clock of the model starts: two components and
\* an arrow between them with one waypoint
EarlierA == Component(MkId("comp", 1, -1), 100, 100, 110, 60)
EarlierB == Component(MkId("comp", 2, -1), 500, 100, 110, 60)
EarlierArrow ==
    Arrow(MkId("arrow", 3, -1), EarlierA.id, "right", EarlierB.id, "left",
          <<Pt(360, 40)>>, "solid")

\* PropertiesPanel, the button clear-waypoints:
\* updateElementWithHistory(arrow.id, {waypoints: []})
ClearWaypoints ==
    /\ CanSave /\ ~CloneThrows(elements)
    /\ \E arrow \in {el \in Range(elements) : el.type = "arrow" /\ el.waypoints # <<>>} :
         /\ elements' = MapSet(elements, Assign(arrow, [waypoints |-> <<>>]))
         /\ SaveToHistory(MapSet(elements, Assign(arrow, [waypoints |-> <<>>])))
         /\ outcome' = [op |-> "clearWaypoints", success |-> TRUE, id |-> arrow.id]
    /\ UNCHANGED <<selectedIds, canvasSize, clipboard, stateIdCounter, now,
                   serverVars, route, heap, dragState, linkVars>>

\* the State after fromJSON of the earlier diagram and a click on its first
\* component; the server at its start
WaypointsInit ==
    /\ ServerStart
    /\ route = NoRoute /\ heap = NoHeap /\ dragState = NoDrag /\ LinkStart
    /\ elements = <<EarlierA, EarlierB, EarlierArrow>>
    /\ selectedIds = {EarlierA.id}
    /\ canvasSize = DefaultCanvas
    /\ clipboard = <<>>
    /\ undoStack = << <<>>, <<EarlierA, EarlierB, EarlierArrow>> >>
    /\ redoStack = <<>>
    /\ stateIdCounter = 0
    /\ outcome = NoOutcome

\* the editor and the server, each followed with the other at rest, without
\* the operations that replace a whole diagram
WaypointsNext ==
    \/ /\ reply.op = "none"
       /\ \/ AddElement
          \/ EditProperty
          \/ ArrowKeyMove
          \/ ClearWaypoints
          \/ DeleteElement
          \/ DeleteSelected
          \/ Undo
          \/ Redo
    \/ /\ outcome.op = "none"
       /\ \/ AddComponent
          \/ AddArrow
          \/ UpdateElement
          \/ ResizeElement
          \/ RemoveElement
          \/ HttpDeleteElement

SpecWaypoints == WaypointsInit /\ [][WaypointsNext]_vars

\* the arrows of els that have waypoints
Routed(els) ==
    {el \in Range(els) : el.type = "arrow" /\ Has(el, "waypoints") /\ el.waypoints # <<>>}

\* every arrow of before that has waypoints, and is not one of ids, has the
\* same waypoints in after, if after holds an arrow of its id at all
KeepsWaypoints(before, after, ids) ==
    \A arrow \in Routed(before) :
        arrow.id \notin ids
            => \A el \in Range(after) :
                  (el.type = "arrow" /\ el.id = arrow.id)
                      => el.waypoints = arrow.waypoints

-----------------------------------------------------------------------------
(* The clipboard of the editor                                             *)

MaxClick == 3

\* State.select(id, addToSelection) on one of the first MaxClick elements;
\* the elements are added to a selection in their order in the diagram
SelectElement ==
    /\ \E i \in DOMAIN elements \cap 1..MaxClick, addToSelection \in BOOLEAN :
         /\ addToSelection
               => \A j \in i..Len(elements) : elements[j].id \notin selectedIds
         /\ selectedIds' = (IF addToSelection THEN selectedIds ELSE {}) \cup {elements[i].id}
    /\ outcome' = Outcome("select", TRUE)
    /\ UNCHANGED <<elements, canvasSize, clipboard, undoStack, redoStack,
                   stateIdCounter, now, serverVars, route, heap, dragState, linkVars>>

\* State.copySelected: a clone of every selected element that exists, in the
\* order of the selection, which is the order of the diagram
CopySelected ==
    /\ ~CloneThrows(elements)
    /\ clipboard' = SelectSeq(elements, LAMBDA el : el.id \in selectedIds)
    /\ outcome' = Outcome("copySelected", TRUE)
    /\ UNCHANGED <<elements, selectedIds, canvasSize, undoStack, redoStack,
                   stateIdCounter, now, serverVars, route, heap, dragState, linkVars>>

\* the State after fromSessionData of the earlier diagram: nothing selected,
\* the clipboard empty
ClipboardInit ==
    /\ ServerStart
    /\ route = NoRoute /\ heap = NoHeap /\ dragState = NoDrag /\ LinkStart
    /\ elements = <<EarlierA, EarlierB, EarlierArrow>>
    /\ selectedIds = {}
    /\ canvasSize = DefaultCanvas
    /\ clipboard = <<>>
    /\ undoStack = << <<>>, <<EarlierA, EarlierB, EarlierArrow>> >>
    /\ redoStack = <<>>
    /\ stateIdCounter = 0
    /\ outcome = NoOutcome

ClipboardNext ==
    \/ SelectElement
    \/ CopySelected
    \/ Paste
    \/ DeleteElement
    \/ DeleteSelected
    \/ ArrowKeyMove
    \/ Undo
    \/ Redo

SpecClipboard == ClipboardInit /\ [][ClipboardNext]_vars

EditorReferentialIntegrity ==
    \A arrow \in Arrows(elements) :
        /\ arrow.from \in ShapeIds(elements)
        /\ arrow.to \in ShapeIds(elements)

\* C30: when the clipboard holds an arrow and the two shapes it joins, the
\* from and the to of the pasted arrow are the ids of the pasted copies of
\* those shapes
PasteRemapsEndpoints ==
    [][(outcome'.op = "paste" /\ clipboard # <<>>)
         => \A k, i, j \in DOMAIN clipboard :
               (/\ clipboard[k].type = "arrow"
                /\ clipboard[i].type # "arrow" /\ clipboard[i].id = clipboard[k].from
                /\ clipboard[j].type # "arrow" /\ clipboard[j].id = clipboard[k].to)
                  => /\ Len(elements') = Len(elements) + Len(clipboard)
                     /\ elements'[Len(elements) + k].from = elements'[Len(elements) + i].id
                     /\ elements'[Len(elements) + k].to = elements'[Len(elements) + j].id]_vars


-----------------------------------------------------------------------------
(* State and History as objects: what a snapshot shares with the live Map  *)

\* heap.cells[r] is the object with the reference r: a Map (entries: the
\* references of its values, in insertion order), an element or a point
\* (kind Object, value: its fields, the waypoints of an arrow a reference),
\* or an Array (items: references). heap.elements is State.elements,
\* heap.undoStack and heap.redoStack are the Maps of the entries of History.
MaxCells == 24

IsElement(cell) == cell.kind = "Object" /\ Has(cell.value, "type")

\* History.cloneElement got a spread only: the clone of an arrow keeps the
\* waypoints array of the original
HeapCloneElementShallow(cells, r) ==
    [cells |-> Append(cells, cells[r]), ref |-> Len(cells) + 1]
\* History.cloneElement: { ...element }, and for an arrow a new array of new
\* points
HeapCloneElement(cells, r) ==
    IF cells[r].value.type = "arrow"
    THEN LET items == cells[cells[r].value.waypoints].items
             base == Len(cells)
             points == [i \in 1..Len(items) |-> cells[items[i]]]
             array == [kind |-> "Array", items |-> [i \in 1..Len(items) |-> base + i]]
             clone == [kind |-> "Object",
                       value |-> Assign(cells[r].value,
                                        [waypoints |-> base + Len(items) + 1])]
         IN [cells |-> cells \o points \o <<array, clone>>,
             ref |-> base + Len(items) + 2]
    ELSE [cells |-> Append(cells, cells[r]), ref |-> Len(cells) + 1]

\* elements.forEach of cloneElements from the k-th entry on: cloned holds the
\* references of the clones so far
RECURSIVE HeapCloneEntries(_, _, _, _)
HeapCloneEntries(cells, entries, k, cloned) ==
    IF k > Len(entries) THEN [cells |-> cells, refs |-> cloned]
    ELSE LET c == HeapCloneElement(cells, entries[k])
         IN HeapCloneEntries(c.cells, entries, k + 1, Append(cloned, c.ref))

\* History.cloneElements: a new Map of clones
HeapCloneElements(cells, map) ==
    LET c == HeapCloneEntries(cells, cells[map].entries, 1, <<>>)
    IN [cells |-> Append(c.cells, [kind |-> "Map", entries |-> c.refs]),
        ref |-> Len(c.cells) + 1]

\* Map.set(id, r) on the Map map, in place
HeapMapSet(cells, map, r) ==
    LET entries == cells[map].entries
        same(e) == cells[e].value.id = cells[r].value.id
    IN [cells EXCEPT ![map].entries =
           IF \E i \in DOMAIN entries : same(entries[i])
           THEN [i \in DOMAIN entries |-> IF same(entries[i]) THEN r ELSE entries[i]]
           ELSE Append(entries, r)]

\* Map.delete of every id in ids on the Map map, in place
HeapMapDelete(cells, map, ids) ==
    [cells EXCEPT ![map].entries = SelectSeq(@, LAMBDA e : cells[e].value.id \notin ids)]

\* History.push(State.elements) on the heap h
HeapPush(h) ==
    LET c == HeapCloneElements(h.cells, h.elements)
        pushed == Append(h.undoStack, c.ref)
    IN [cells |-> c.cells, elements |-> h.elements,
        undoStack |-> IF Len(pushed) > MaxSize THEN Tail(pushed) ELSE pushed,
        redoStack |-> <<>>]

HeapStep(op) == /\ outcome' = Outcome(op, TRUE)
                /\ UNCHANGED <<serverVars, now, route, elements, selectedIds, canvasSize,
                               clipboard, undoStack, redoStack, stateIdCounter, dragState, linkVars>>
CanAllocate == Len(heap.cells) < MaxCells

\* State.addElement of a new component or of a new arrow (createArrow:
\* waypoints []); the id is made of the number of objects so far
HeapAddElement ==
    /\ CanAllocate
    /\ \E type \in {"component", "arrow"} :
       \E id \in {MkId(type, Len(heap.cells), 0)} :
       \E cells \in {IF type = "arrow"
                     THEN heap.cells \o
                          << [kind |-> "Array", items |-> <<>>],
                             [kind |-> "Object",
                              value |-> Arrow(id, GhostId, "right", GhostId, "left",
                                              Len(heap.cells) + 1, "solid")] >>
                     ELSE Append(heap.cells,
                                 [kind |-> "Object",
                                  value |-> Component(id, 160, 160, 100, 80)])} :
         heap' = HeapPush([heap EXCEPT
                     !.cells = HeapMapSet(cells, heap.elements, Len(cells))])
    /\ HeapStep("addElement")

\* State.updateElementWithHistory(id, {x}): a new object { ...element, x }
HeapUpdateElement ==
    /\ CanAllocate
    /\ \E r \in Range(heap.cells[heap.elements].entries) :
         /\ heap.cells[r].value.type # "arrow"
         /\ \E updated \in {[kind |-> "Object",
                             value |-> Assign(heap.cells[r].value,
                                              [x |-> heap.cells[r].value.x + 20])]} :
              heap' = HeapPush([heap EXCEPT
                          !.cells = HeapMapSet(Append(heap.cells, updated),
                                               heap.elements, Len(heap.cells) + 1)])
    /\ HeapStep("updateElementWithHistory")

\* SessionManager.insertWaypoint: [...arrow.waypoints] with a new point
\* spliced in at the front, then updateElementWithHistory(arrowId,
\* {waypoints})
HeapInsertWaypoint ==
    /\ CanAllocate
    /\ \E r \in Range(heap.cells[heap.elements].entries) :
         /\ heap.cells[r].value.type = "arrow"
         /\ Len(heap.cells[heap.cells[r].value.waypoints].items) < 2
         /\ \E base \in {Len(heap.cells)} :
            \E cells \in {heap.cells \o
                    << [kind |-> "Object", value |-> Pt(300 + base, 40)],
                       [kind |-> "Array",
                        items |-> <<base + 1>>
                                  \o heap.cells[heap.cells[r].value.waypoints].items],
                       [kind |-> "Object",
                        value |-> Assign(heap.cells[r].value,
                                         [waypoints |-> base + 2])] >>} :
              heap' = HeapPush([heap EXCEPT
                          !.cells = HeapMapSet(cells, heap.elements, base + 3)])
    /\ HeapStep("insertWaypoint")

\* State.deleteElement(id)
HeapDeleteElement ==
    /\ CanAllocate
    /\ \E r \in Range(heap.cells[heap.elements].entries) :
         heap' = HeapPush([heap EXCEPT
                     !.cells = HeapMapDelete(heap.cells, heap.elements,
                                             {heap.cells[r].value.id})])
    /\ HeapStep("deleteElement")

\* State.undo: History.undo, and State.elements becomes the Map it returns
HeapUndo ==
    /\ CanAllocate
    /\ Len(heap.undoStack) > 1
    /\ \E c \in {HeapCloneElements(heap.cells,
                     heap.undoStack[Len(heap.undoStack) - 1])} :
         heap' = [cells |-> c.cells, elements |-> c.ref,
                  undoStack |-> SubSeq(heap.undoStack, 1, Len(heap.undoStack) - 1),
                  redoStack |-> Append(heap.redoStack,
                                       heap.undoStack[Len(heap.undoStack)])]
    /\ HeapStep("undo")

\* State.redo
HeapRedo ==
    /\ CanAllocate
    /\ Len(heap.redoStack) > 0
    /\ \E c \in {HeapCloneElements(heap.cells, heap.redoStack[Len(heap.redoStack)])} :
         heap' = [cells |-> c.cells, elements |-> c.ref,
                  undoStack |-> Append(heap.undoStack,
                                       heap.redoStack[Len(heap.redoStack)]),
                  redoStack |-> SubSeq(heap.redoStack, 1, Len(heap.redoStack) - 1)]
    /\ HeapStep("redo")

HeapNext ==
    \/ HeapAddElement
    \/ HeapUpdateElement
    \/ HeapInsertWaypoint
    \/ HeapDeleteElement
    \/ HeapUndo
    \/ HeapRedo

SpecHeap == EditorInit /\ [][HeapNext]_vars

\* the objects that can be reached from the object r
RECURSIVE ReachableFrom(_, _)
ReachableFrom(cells, r) ==
    {r} \cup
    (IF cells[r].kind = "Map"
     THEN UNION {ReachableFrom(cells, e) : e \in Range(cells[r].entries)}
     ELSE IF cells[r].kind = "Array"
     THEN Range(cells[r].items)
     ELSE IF IsElement(cells[r]) /\ cells[r].value.type = "arrow"
     THEN ReachableFrom(cells, cells[r].value.waypoints)
     ELSE {})

\* what the object r holds, with the objects it refers to in place of their
\* references
RECURSIVE Contents(_, _)
Contents(cells, r) ==
    IF cells[r].kind = "Map"
    THEN [i \in DOMAIN cells[r].entries |-> Contents(cells, cells[r].entries[i])]
    ELSE IF cells[r].kind = "Array"
    THEN [i \in DOMAIN cells[r].items |-> cells[cells[r].items[i]].value]
    ELSE IF IsElement(cells[r]) /\ cells[r].value.type = "arrow"
    THEN Assign(cells[r].value,
                [waypoints |-> Contents(cells, cells[r].value.waypoints)])
    ELSE cells[r].value

Snapshots(h) == Range(h.undoStack) \cup Range(h.redoStack)

\* C23: no step changes what a snapshot on the undo or the redo stack holds;
\* the live Map and the snapshots have no object in common, and neither have
\* two snapshots; an undo followed by a redo, and a redo followed by an undo,
\* bring back the same elements
NoAliasing ==
    [][/\ \A s \in Snapshots(heap) \cap Snapshots(heap') :
             Contents(heap'.cells, s) = Contents(heap.cells, s)
       /\ \A s \in Snapshots(heap') :
             /\ ReachableFrom(heap'.cells, heap'.elements)
                    \cap ReachableFrom(heap'.cells, s) = {}
             /\ \A t \in Snapshots(heap') \ {s} :
                    ReachableFrom(heap'.cells, s) \cap ReachableFrom(heap'.cells, t) = {}
       /\ outcome'.op \in {"undo", "redo"}
             => Contents(heap'.cells, heap'.elements)
                    = Contents(heap'.cells, heap'.undoStack[Len(heap'.undoStack)])]_vars

\* an arrow with a waypoint was saved, undone and redone, and then got one
\* more waypoint: the snapshot below the newest still holds one waypoint
EditedAfterRedo ==
    /\ outcome.op = "insertWaypoint"
    /\ Len(heap.undoStack) >= 4
    /\ \E arrow \in Range(Contents(heap.cells, heap.elements)) :
          arrow.type = "arrow" /\ Len(arrow.waypoints) = 2
    /\ \E arrow \in Range(Contents(heap.cells, heap.undoStack[Len(heap.undoStack) - 1])) :
          arrow.type = "arrow" /\ Len(arrow.waypoints) = 1
    /\ \E r \in 1..Len(heap.cells) :
          heap.cells[r].kind = "Map" /\ r \notin Snapshots(heap) \cup {heap.elements}

-----------------------------------------------------------------------------
(* lineIntersectsRect on its own                                           *)

MaxCoord == 5
MaxExtent == 1
MaxPadding == 1

\* the points of a call, on a grid that reaches beyond every padded rectangle
CollisionPoints == {Pt(px, py) : px \in 0..MaxCoord, py \in 0..MaxCoord}
\* the rectangles of a call, at (2, 2), those without width or height included
CollisionRects ==
    {[x |-> 2, y |-> 2, width |-> w, height |-> h] : w \in 0..MaxExtent, h \in 0..MaxExtent}

CallLineIntersectsRect ==
    /\ ~route.called
    /\ \E p1 \in CollisionPoints, p2 \in CollisionPoints,
          rect \in CollisionRects, padding \in 0..MaxPadding :
         route' = [called |-> TRUE, fn |-> "lineIntersectsRect",
                   p1 |-> p1, p2 |-> p2, rect |-> rect, padding |-> padding,
                   result |-> LineIntersectsRect(p1, p2, rect, padding)]
    /\ UNCHANGED <<serverVars, now, editorVars, heap, dragState, linkVars>>

SpecCollision == ServerInit /\ [][CallLineIntersectsRect]_vars

\* the point p lies in the closed rectangle grown by padding
PointInPadded(p, rect, padding) ==
    /\ rect.x - padding <= p.x /\ p.x <= rect.x + rect.width + padding
    /\ rect.y - padding <= p.y /\ p.y <= rect.y + rect.height + padding

\* the padded rectangle of the call has an inside: it is neither a point nor
\* a line
PaddedHasInside ==
    route.rect.width + 2 * route.padding > 0 /\ route.rect.height + 2 * route.padding > 0

\* C26: lineIntersectsRect is true exactly when the closed segment p1-p2 has
\* a point in the closed rectangle grown by padding on all sides, for every
\* rectangle and every padding >= 0
CollisionTestExact ==
    route.called =>
        (route.result <=> SegmentMeetsRect(route.p1, route.p2, route.rect, route.padding))

\* C26, for padded rectangles of positive width and height: lineIntersectsRect
\* is true exactly when the closed segment has a point in the closed padded
\* rectangle; with p1 = p2 it is the test of that point
CollisionTestOnProperRects ==
    (route.called /\ PaddedHasInside) =>
        /\ route.result <=> SegmentMeetsRect(route.p1, route.p2, route.rect, route.padding)
        /\ route.p1 = route.p2 =>
              (route.result <=> PointInPadded(route.p1, route.rect, route.padding))
        /\ (PointInPadded(route.p1, route.rect, route.padding)
              \/ PointInPadded(route.p2, route.rect, route.padding)) => route.result

\* a slanted segment that only touches the corner (left, top) of the padded
\* rectangle, both ends outside it
TouchesCorner ==
    /\ route.called /\ PaddedHasInside /\ route.result
    /\ ~PointInPadded(route.p1, route.rect, route.padding)
    /\ ~PointInPadded(route.p2, route.rect, route.padding)
    /\ (route.p2.x - route.p1.x) * (route.p2.y - route.p1.y) < 0
    /\ SegmentMeetsRect(route.p1, route.p2,
                        [x |-> route.rect.x - route.padding,
                         y |-> route.rect.y - route.padding,
                         width |-> 0, height |-> 0], 0)

-----------------------------------------------------------------------------
(* getObstacleBounds of the server and of the PropertiesPanel              *)

\* PropertiesPanel.getObstacleBounds over State.elements: width ?? default,
\* the default by the type of the element
PanelObstacleBounds(els, excludeFromId, excludeToId) ==
    LET isObstacle(el) == el.type # "arrow" /\ el.type # "zone"
                          /\ el.id # excludeFromId /\ el.id # excludeToId
        widthOr(el, d) == IF Has(el, "width") THEN el.width ELSE d
        heightOr(el, d) == IF Has(el, "height") THEN el.height ELSE d
        bounds(el) ==
            [x |-> el.x, y |-> el.y,
             width |-> CASE el.type = "component" -> widthOr(el, 100)
                         [] el.type = "note" -> widthOr(el, 150)
                         [] el.type = "scenario" -> widthOr(el, 160)
                         [] OTHER -> 100,
             height |-> CASE el.type = "component" -> heightOr(el, 80)
                          [] el.type = "note" -> heightOr(el, 100)
                          [] el.type = "scenario" -> heightOr(el, 100)
                          [] OTHER -> 80]
        kept == SelectSeq(els, isObstacle)
    IN [i \in 1..Len(kept) |-> bounds(kept[i])]

\* the elements a diagram file can add to the two earlier components: shapes
\* with and without a size, a zone and an arrow
ObstacleExtras ==
    << BareComponent(MkId("comp", 4, -1), 300, 0),
       Note(MkId("note", 5, -1), 300, 200, 180, 120),
       [id |-> MkId("note", 6, -1), type |-> "note", x |-> 300, y |-> 400],
       Zone(MkId("zone", 7, -1), 0, 0, 800, 600),
       EarlierArrow >>
ObstacleLayouts ==
    {<<EarlierA, EarlierB>> \o SelectSeq(ObstacleExtras, LAMBDA el : el.id \in ids) :
        ids \in SUBSET Ids(ObstacleExtras)}

\* the diagram of the server, and the same diagram loaded in the editor
ObstaclesInit ==
    /\ \E layout \in ObstacleLayouts :
         /\ diagram = [elements |-> layout, canvasSize |-> DefaultCanvas]
         /\ elements = layout
         /\ undoStack = << <<>>, layout >>
    /\ idCounter = 0 /\ now = 0 /\ reply = NoReply
    /\ route = NoRoute /\ heap = NoHeap /\ dragState = NoDrag /\ LinkStart
    /\ selectedIds = {} /\ canvasSize = DefaultCanvas /\ clipboard = <<>>
    /\ redoStack = <<>> /\ stateIdCounter = 0 /\ outcome = NoOutcome

CallGetObstacleBounds ==
    /\ ~route.called
    /\ \E fromId \in ShapeIds(diagram.elements), toId \in ShapeIds(diagram.elements) :
         route' = [called |-> TRUE, fn |-> "getObstacleBounds", of |-> "server",
                   fromId |-> fromId, toId |-> toId,
                   result |-> GetObstacleBounds(diagram.elements, {fromId, toId})]
    /\ UNCHANGED <<serverVars, now, editorVars, heap, dragState, linkVars>>

CallPanelObstacleBounds ==
    /\ ~route.called
    /\ \E fromId \in ShapeIds(elements), toId \in ShapeIds(elements) :
         route' = [called |-> TRUE, fn |-> "getObstacleBounds", of |-> "panel",
                   fromId |-> fromId, toId |-> toId,
                   result |-> PanelObstacleBounds(elements, fromId, toId)]
    /\ UNCHANGED <<serverVars, now, editorVars, heap, dragState, linkVars>>

ObstaclesNext == CallGetObstacleBounds \/ CallPanelObstacleBounds

SpecObstacles == ObstaclesInit /\ [][ObstaclesNext]_vars

\* the elements the claim counts as obstacles of the call, by position
ObstacleElements(els) ==
    {i \in DOMAIN els : els[i].type \notin {"arrow", "zone"}
                        /\ els[i].id \notin {route.fromId, route.toId}}
\* the rectangle of an element, 100 wide and 80 high where it has no size
RectangleOf(el) ==
    [x |-> el.x, y |-> el.y,
     width |-> IF Has(el, "width") THEN el.width ELSE DefaultWidth,
     height |-> IF Has(el, "height") THEN el.height ELSE DefaultHeight]
SameRectangle(a, b) ==
    a.x = b.x /\ a.y = b.y /\ a.width = b.width /\ a.height = b.height

\* C27: the obstacle list of a call has exactly one rectangle for each element
\* that is neither an arrow nor a zone nor one of the two endpoints, 100 wide
\* and 80 high where the element has no width or height, and nothing else
ObstacleSetExact ==
    route.called =>
      LET els == IF route.of = "server" THEN diagram.elements ELSE elements
      IN /\ Len(route.result) = Cardinality(ObstacleElements(els))
         /\ \A i \in ObstacleElements(els) :
               Cardinality({j \in DOMAIN route.result :
                               SameRectangle(route.result[j], RectangleOf(els[i]))})
               = Cardinality({k \in ObstacleElements(els) :
                               SameRectangle(RectangleOf(els[k]), RectangleOf(els[i]))})

-----------------------------------------------------------------------------
(* Drags of the mouse: SessionManager's handlers around State               *)

MaxMoves == 2

\* a mouse button is down on an element, a waypoint or a resize handle
ButtonHeld ==
    dragState.isDragging \/ dragState.draggingWaypoint # <<>>
    \/ dragState.resizingElement # <<>>

\* the mouse moves of the drag so far
MovesSoFar == IF outcome.op = "updateElement" THEN outcome.moves ELSE 0

\* handleElementMouseDown's Maps for the selection: the start position of
\* every selected shape, the start waypoints of every selected arrow that has
\* some (no zone has lockElements set)
StartPositions(els, ids) ==
    LET shapes == SelectSeq(els, LAMBDA el : el.id \in ids /\ el.type # "arrow")
    IN [k \in 1..Len(shapes) |-> [id |-> shapes[k].id, x |-> shapes[k].x, y |-> shapes[k].y]]
WaypointsStart(els, ids) ==
    LET arrows == SelectSeq(els, LAMBDA el : el.id \in ids /\ el.type = "arrow"
                                             /\ Has(el, "waypoints")
                                             /\ Len(el.waypoints) > 0)
    IN [k \in 1..Len(arrows) |-> [id |-> arrows[k].id, waypoints |-> arrows[k].waypoints]]

\* handleMouseDown on a shape (handleElementMouseDown): the selection, then
\* the start of a drag of the selection
ElementMouseDown ==
    /\ ~ButtonHeld
    /\ \E i \in DOMAIN elements \cap 1..MaxClick, shiftKey \in BOOLEAN :
       \E id \in {elements[i].id} :
         /\ elements[i].type # "arrow"
         /\ \E selected \in {IF shiftKey
                             THEN (IF id \in selectedIds THEN selectedIds \ {id}
                                   ELSE selectedIds \cup {id})
                             ELSE IF id \notin selectedIds THEN {id} ELSE selectedIds} :
              /\ selectedIds' = selected
              /\ dragState' = [dragState EXCEPT
                    !.isDragging = TRUE,
                    !.elementStartPositions = StartPositions(elements, selected),
                    !.arrowWaypointsStart = WaypointsStart(elements, selected)]
    /\ outcome' = Outcome("mouseDown", TRUE)
    /\ UNCHANGED <<elements, canvasSize, clipboard, undoStack, redoStack,
                   stateIdCounter, now, serverVars, route, heap, linkVars>>

\* handleMouseDown on the handle of a waypoint (startWaypointDrag)
WaypointMouseDown ==
    /\ ~ButtonHeld
    /\ \E i \in DOMAIN elements :
         /\ elements[i].type = "arrow" /\ Has(elements[i], "waypoints")
         /\ \E index \in 0..(Len(elements[i].waypoints) - 1) :
              dragState' = [dragState EXCEPT
                  !.draggingWaypoint = <<[arrowId |-> elements[i].id, index |-> index]>>]
    /\ outcome' = Outcome("mouseDown", TRUE)
    /\ UNCHANGED <<elements, selectedIds, canvasSize, clipboard, undoStack, redoStack,
                   stateIdCounter, now, serverVars, route, heap, linkVars>>

\* the size startElementResize reads: width ?? the default of the type
StartSize(el) ==
    [width |-> IF Has(el, "width") THEN el.width
               ELSE CASE el.type = "note" -> 150 [] el.type = "scenario" -> 160
                      [] OTHER -> 100,
     height |-> IF Has(el, "height") THEN el.height
                ELSE CASE el.type \in {"note", "scenario"} -> 100 [] OTHER -> 80]

\* handleMouseDown on the bottom-right resize handle of a component, note or
\* scenario (startElementResize)
ResizeMouseDown ==
    /\ ~ButtonHeld
    /\ \E i \in DOMAIN elements \cap 1..MaxClick :
         /\ elements[i].type \in {"component", "note", "scenario"}
         /\ dragState' = [dragState EXCEPT
                !.resizingElement = <<elements[i].id>>,
                !.resizeStartSize = <<StartSize(elements[i])>>]
    /\ outcome' = Outcome("mouseDown", TRUE)
    /\ UNCHANGED <<elements, selectedIds, canvasSize, clipboard, undoStack, redoStack,
                   stateIdCounter, now, serverVars, route, heap, linkVars>>

\* Canvas.checkAutoExpand(element) and setCanvasSize
AutoExpand(size, el) ==
    IF el.type = "arrow" THEN size
    ELSE LET w == IF Has(el, "width") THEN el.width
                  ELSE CASE el.type = "note" -> 150 [] el.type = "scenario" -> 160
                         [] OTHER -> 100
             h == IF Has(el, "height") THEN el.height
                  ELSE CASE el.type \in {"note", "scenario"} -> 100 [] OTHER -> 80
             rightEdge == el.x + w + 50
             bottomEdge == el.y + h + 50
             newWidth == IF rightEdge > size.width THEN CeilTo(rightEdge, 100)
                         ELSE size.width
             newHeight == IF bottomEdge > size.height THEN CeilTo(bottomEdge, 100)
                          ELSE size.height
         IN IF rightEdge > size.width \/ bottomEdge > size.height
            THEN [width |-> MaxOf({400, newWidth}), height |-> MaxOf({300, newHeight})]
            ELSE size

\* updateElementDrag from entry k of elementStartPositions on: updateElement
\* of the position, then checkAutoExpand of the element if there is one
RECURSIVE DragShapes(_, _, _, _, _)
DragShapes(st, starts, k, dx, dy) ==
    IF k > Len(starts) THEN st
    ELSE LET i == FindIndex(st.elements, starts[k].id)
         IN IF i = 0 THEN DragShapes(st, starts, k + 1, dx, dy)
            ELSE LET updated == Assign(st.elements[i],
                                       [x |-> Snap(starts[k].x + dx),
                                        y |-> Snap(starts[k].y + dy)])
                 IN DragShapes([elements |-> MapSet(st.elements, updated),
                                canvasSize |-> AutoExpand(st.canvasSize, updated)],
                               starts, k + 1, dx, dy)

\* updateElementDrag's second loop: the waypoints of the selected arrows move
\* by the same offset from where they started
DragArrows(els, starts, dx, dy) ==
    [i \in 1..Len(els) |->
        IF \E k \in DOMAIN starts : starts[k].id = els[i].id
        THEN LET wps == (CHOOSE k \in DOMAIN starts : starts[k].id = els[i].id)
             IN Assign(els[i], [waypoints |->
                   [n \in 1..Len(starts[wps].waypoints) |->
                       Pt(starts[wps].waypoints[n].x + dx, starts[wps].waypoints[n].y + dy)]])
        ELSE els[i]]

\* the width and height of updateElementResize from the bottom-right handle
Resized(el, startSize, dx, dy) ==
    LET minWidth == CASE el.type = "note" -> 80 [] el.type = "scenario" -> 100 [] OTHER -> 60
        minHeight == CASE el.type = "note" -> 60 [] el.type = "scenario" -> 70 [] OTHER -> 50
    IN Assign(el, [width |-> Snap(MaxOf({minWidth, startSize.width + dx})),
                   height |-> Snap(MaxOf({minHeight, startSize.height + dy}))])

\* mutant: every move of the mouse is recorded
MouseMoveRecording ==
    /\ ButtonHeld /\ MovesSoFar < MaxMoves /\ CanSave
    /\ dragState.isDragging /\ selectedIds # {}
    /\ \E dx \in {20, 50} :
       \E st \in {DragShapes([elements |-> elements, canvasSize |-> canvasSize],
                             dragState.elementStartPositions, 1, dx, 0)} :
         /\ elements' = DragArrows(st.elements, dragState.arrowWaypointsStart, dx, 0)
         /\ canvasSize' = st.canvasSize
         /\ SaveToHistory(DragArrows(st.elements, dragState.arrowWaypointsStart, dx, 0))
    /\ outcome' = [op |-> "updateElement", success |-> TRUE, moves |-> MovesSoFar + 1]
    /\ UNCHANGED <<selectedIds, clipboard, stateIdCounter, dragState,
                   now, serverVars, route, heap, linkVars>>

\* handleMouseMove while a button is held: updateWaypointPosition,
\* updateElementResize or updateElementDrag, each by State.updateElement
MouseMove ==
    /\ ButtonHeld /\ MovesSoFar < MaxMoves
    /\ IF dragState.draggingWaypoint # <<>>
       THEN \E canvasPoint \in {Pt(360, 80), Pt(371, 129)} :
            \E at \in {dragState.draggingWaypoint[1]} :
            \E i \in {FindIndex(elements, at.arrowId)} :
              /\ elements' =
                   IF i # 0 /\ at.index < Len(elements[i].waypoints)
                   THEN MapSet(elements, Assign(elements[i], [waypoints |->
                           [elements[i].waypoints EXCEPT ![at.index + 1] =
                               Pt(Snap(canvasPoint.x), Snap(canvasPoint.y))]]))
                   ELSE elements
              /\ canvasSize' = canvasSize
       ELSE IF dragState.resizingElement # <<>>
       THEN \E dx \in {20, 50}, dy \in {0, -100} :
            \E i \in {FindIndex(elements, dragState.resizingElement[1])} :
              /\ elements' =
                   IF i # 0
                   THEN MapSet(elements,
                               Resized(elements[i], dragState.resizeStartSize[1], dx, dy))
                   ELSE elements
              /\ canvasSize' = canvasSize
       ELSE /\ selectedIds # {}
            /\ \E dx \in {20, 50} :
               \E st \in {DragShapes([elements |-> elements, canvasSize |-> canvasSize],
                                     dragState.elementStartPositions, 1, dx, 0)} :
                 /\ elements' = DragArrows(st.elements, dragState.arrowWaypointsStart, dx, 0)
                 /\ canvasSize' = st.canvasSize
    /\ outcome' = [op |-> "updateElement", success |-> TRUE, moves |-> MovesSoFar + 1]
    /\ UNCHANGED <<selectedIds, clipboard, undoStack, redoStack, stateIdCounter, dragState,
                   now, serverVars, route, heap, linkVars>>

\* handleMouseUp while a button is held: the end of a waypoint drag, of a
\* resize or of a drag of the selection; a saveToHistory that throws leaves
\* dragState as it is
MouseUp ==
    /\ ButtonHeld /\ CanSave
    /\ IF dragState.draggingWaypoint # <<>>
       THEN /\ SaveToHistory(elements)
            /\ dragState' = IF CloneThrows(elements) THEN dragState
                            ELSE [dragState EXCEPT !.draggingWaypoint = <<>>]
            /\ outcome' = [op |-> "mouseUp", success |-> ~CloneThrows(elements),
                           ended |-> "waypoint", moves |-> MovesSoFar]
       ELSE IF dragState.resizingElement # <<>>
       THEN /\ SaveToHistory(elements)
            /\ dragState' = IF CloneThrows(elements) THEN dragState
                            ELSE [dragState EXCEPT !.resizingElement = <<>>,
                                                   !.resizeStartSize = <<>>]
            /\ outcome' = [op |-> "mouseUp", success |-> ~CloneThrows(elements),
                           ended |-> "resize", moves |-> MovesSoFar]
       ELSE IF Len(dragState.elementStartPositions) > 0
               \/ Len(dragState.arrowWaypointsStart) > 0
       THEN /\ SaveToHistory(elements)
            /\ dragState' = IF CloneThrows(elements) THEN dragState
                            ELSE [dragState EXCEPT !.isDragging = FALSE,
                                                   !.elementStartPositions = <<>>,
                                                   !.arrowWaypointsStart = <<>>]
            /\ outcome' = [op |-> "mouseUp", success |-> ~CloneThrows(elements),
                           ended |-> "drag", moves |-> MovesSoFar]
       ELSE /\ UNCHANGED <<undoStack, redoStack>>
            /\ dragState' = [dragState EXCEPT !.isDragging = FALSE]
            /\ outcome' = [op |-> "mouseUp", success |-> TRUE,
                           ended |-> "nothing", moves |-> MovesSoFar]
    /\ UNCHANGED <<elements, selectedIds, canvasSize, clipboard, stateIdCounter,
                   now, serverVars, route, heap, linkVars>>

\* the keyboard and the panels are used between drags, not during one
DragNext ==
    \/ ElementMouseDown
    \/ WaypointMouseDown
    \/ ResizeMouseDown
    \/ MouseMove
    \/ MouseUp
    \/ ~ButtonHeld /\ AddElement
    \/ ~ButtonHeld /\ DeleteElement
    \/ ~ButtonHeld /\ DeleteSelected
    \/ ~ButtonHeld /\ CopySelected
    \/ ~ButtonHeld /\ Paste
    \/ ~ButtonHeld /\ EditProperty
    \/ ~ButtonHeld /\ ArrowKeyMove
    \/ ~ButtonHeld /\ Undo
    \/ ~ButtonHeld /\ Redo

SpecDrag == ClipboardInit /\ [][DragNext]_vars

\* the step pushes the elements it leaves as one new entry of the undo stack
\* (the oldest entry goes at capacity) and empties the redo stack
RecordsOneSnapshot ==
    /\ undoStack' = IF Len(undoStack) < MaxSize THEN Append(undoStack, elements')
                    ELSE Append(Tail(undoStack), elements')
    /\ redoStack' = <<>>

RecordsNothing == UNCHANGED <<undoStack, redoStack>>

\* the mouse went down where there is nothing to drag: the selection is
\* empty, or holds only arrows without waypoints
NothingGrabbed ==
    /\ dragState.draggingWaypoint = <<>> /\ dragState.resizingElement = <<>>
    /\ Len(dragState.elementStartPositions) = 0
    /\ Len(dragState.arrowWaypointsStart) = 0

RecordingCalls ==
    {"addElement", "deleteElement", "deleteSelected", "updateElementWithHistory",
     "saveToHistory"}

-----------------------------------------------------------------------------
(* Calls that name no element                                              *)

\* State.updateElement(id, {x: 300}) by itself; emitted lists what it emits
StateUpdateElement ==
    /\ \E id \in Ids(elements) \cup {GhostId} :
       \E i \in {FindIndex(elements, id)} :
         IF i = 0
         THEN /\ UNCHANGED elements
              /\ outcome' = [op |-> "updateElement", success |-> TRUE, id |-> id,
                             emitted |-> <<>>]
         ELSE /\ elements' = MapSet(elements, Assign(elements[i],
                                 IF elements[i].type = "arrow" THEN [style |-> "dashed"]
                                 ELSE [x |-> 300]))
              /\ outcome' = [op |-> "updateElement", success |-> TRUE, id |-> id,
                             emitted |-> <<"elementsChange">>]
    /\ UNCHANGED <<selectedIds, canvasSize, clipboard, undoStack, redoStack,
                   stateIdCounter, now, serverVars, route, heap, dragState, linkVars>>

\* the earlier diagram in the server and in the editor
UnknownInit ==
    /\ diagram = [elements |-> <<EarlierA, EarlierB, EarlierArrow>>,
                  canvasSize |-> DefaultCanvas]
    /\ idCounter = 0 /\ now = 0 /\ reply = NoReply
    /\ route = NoRoute /\ heap = NoHeap /\ dragState = NoDrag /\ LinkStart
    /\ elements = <<EarlierA, EarlierB, EarlierArrow>>
    /\ undoStack = << <<>>, <<EarlierA, EarlierB, EarlierArrow>> >>
    /\ selectedIds = {} /\ canvasSize = DefaultCanvas /\ clipboard = <<>>
    /\ redoStack = <<>> /\ stateIdCounter = 0 /\ outcome = NoOutcome

\* the server and the editor are followed one at a time, the other at rest
UnknownNext ==
    \/ outcome.op = "none" /\ RemoveElement
    \/ outcome.op = "none" /\ \E id \in Targets : UpdateElementWith(id)
    \/ outcome.op = "none" /\ \E id \in Targets : ResizeElementWith(id)
    \/ outcome.op = "none" /\ AddComponent
    \/ reply.op = "none" /\ StateUpdateElement
    \/ reply.op = "none" /\ DeleteElement

SpecUnknown == UnknownInit /\ [][UnknownNext]_vars

\* C31: update_element, resize_element and remove_element with an id that no
\* element has answer not found, resize_element of an arrow answers not
\* resizable, and both leave the elements and the canvas size of the diagram
\* as they were; State.updateElement with an id that no element has changes
\* no element and emits nothing
UnknownIdRejected ==
    [][/\ (reply'.op \in {"remove_element", "update_element", "resize_element"}
             /\ reply'.id \notin Ids(diagram.elements))
            => (reply'.status = "not_found" /\ diagram' = diagram)
       /\ (reply'.op = "resize_element"
             /\ \E el \in Range(diagram.elements) : el.id = reply'.id /\ el.type = "arrow")
            => (reply'.status = "not_resizable" /\ diagram' = diagram)
       /\ (outcome'.op = "updateElement" /\ outcome'.id \notin Ids(elements))
            => (elements' = elements /\ outcome'.emitted = <<>>)]_vars

\* update_element of an id that is not there, on a diagram that holds the
\* component added before it and the earlier elements
UnknownUpdateRefused ==
    /\ reply.op = "update_element" /\ reply.status = "not_found"
    /\ reply.id \notin Ids(diagram.elements)
    /\ Len(diagram.elements) = 4

-----------------------------------------------------------------------------
(* The selection and the elements                                          *)

\* C37: after State operations that select only ids of elements, every id
\* in selectedIds is the id of an element of the diagram
SelectionRefersToElements == selectedIds \subseteq Ids(elements)

-----------------------------------------------------------------------------
(* Undo followed by redo, redo followed by undo                            *)

\* recorded and unrecorded changes of the earlier diagram, undo and redo
UndoRedoNext ==
    \/ AddElement
    \/ DeleteElement
    \/ EditProperty
    \/ StateUpdateElement
    \/ Undo
    \/ Redo

SpecUndoRedo == ClipboardInit /\ [][UndoRedoNext]_vars

\* an undo that acted and is followed at once by a redo that acts
UndoThenRedo ==
    /\ outcome.op = "undo" /\ outcome.success
    /\ outcome'.op = "redo" /\ outcome'.success
\* a redo that acted and is followed at once by an undo that acts
RedoThenUndo ==
    /\ outcome.op = "redo" /\ outcome.success
    /\ outcome'.op = "undo" /\ outcome'.success

\* C38 as stated: a redo right after an undo that succeeded gives the
\* elements the value they had just before the undo, and an undo right after
\* a redo that succeeded the value they had just before the redo
UndoRedoInverse ==
    [][(UndoThenRedo \/ RedoThenUndo) => elements' = outcome.before]_vars

\* C38: undo and redo are inverse where the elements were recorded: when
\* the elements are the newest entry of the undo stack as undo succeeds, a
\* redo right after it restores them, and when they are the newest entry
\* as redo succeeds, an undo right after it restores them
UndoRedoInverseWhenRecorded ==
    [][((UndoThenRedo \/ RedoThenUndo) /\ outcome.recorded)
          => elements' = outcome.before]_vars

\* a redo right after an undo of recorded elements has changed the elements
RedoneAfterUndo ==
    /\ outcome.op = "redo" /\ outcome.success /\ outcome.follows = "undo"
    /\ elements # outcome.before
    /\ elements = undoStack[Len(undoStack)]
    /\ Len(undoStack) = 3

-----------------------------------------------------------------------------
(* The WebSocket server of index.ts and the MCPClient of the editor        *)

MaxSends == 3

\* the sockets that connect: the editor's, and one of another program
Sockets == {"browser", "other"}

\* resetAutoShutdownTimer on the server s: clearTimeout of the timer held,
\* then a new timeout
ResetAutoShutdownTimer(s) ==
    [s EXCEPT !.autoShutdownTimer = TRUE,
              !.timers = (IF s.autoShutdownTimer THEN @ - 1 ELSE @) + 1]

\* startWebSocketServer: while running it resets the timer and returns
StartWebSocketServer(s) ==
    IF s.wss THEN ResetAutoShutdownTimer(s)
    ELSE ResetAutoShutdownTimer([s EXCEPT !.wss = TRUE, !.instances = @ + 1])

\* stopWebSocketServer: the timer is cleared; close() is called on every
\* client, whose handlers stay bound until its 'close' event
StopWebSocketServer(s) ==
    LET cleared == [s EXCEPT !.autoShutdownTimer = FALSE,
                             !.timers = IF s.autoShutdownTimer THEN @ - 1 ELSE @]
    IN IF s.wss
       THEN [cleared EXCEPT !.late = @ \cup s.wsClients, !.wsClients = {},
                            !.wss = FALSE, !.instances = @ - 1]
       ELSE cleared

\* the data of a diagram message: the diagram and the current session
DiagramData(d, sessionId) ==
    [elements |-> d.elements, canvasSize |-> d.canvasSize, sessionId |-> sessionId]
DiagramMessage(data) == [type |-> "diagram", data |-> data]
LoadingStart == [type |-> "loadingStart"]
LoadingEnd == [type |-> "loadingEnd"]

\* ws.send(message) for every client that is OPEN, seen from the editor:
\* the messages join those on their way to its socket
Send(c, s, messages) ==
    IF "browser" \in s.wsClients /\ c.ws = "open"
    THEN [c EXCEPT !.inbox = @ \o messages]
    ELSE c

\* MCPClient.maxReconnectAttempts
maxReconnectAttempts == 5

\* syncToServer on the client c, the body of its PUT /api/diagram from the
\* elements els and the canvas size
SyncToServer(c, els, size) ==
    IF c.isSyncingFromServer \/ c.isSyncingToServer THEN c
    ELSE [c EXCEPT !.isSyncingToServer = TRUE,
                   !.requests = Append(@, [elements |-> els, canvasSize |-> size])]

\* bindStateEvents: the listener of 'elementsChange'
OnElementsChange(c, els, size) ==
    IF ~c.isSyncingFromServer THEN SyncToServer(c, els, size) ELSE c

\* SessionManager.bindStateEvents: the listener of 'elementsChange' arms
\* the debounce timer when there is a session and an element
ScheduleSaveOnChange(sess, els) ==
    IF sess.sessionId # <<>> /\ Len(els) > 0
    THEN [sess EXCEPT !.saveDebounceTimer = TRUE] ELSE sess

\* applyDiagramData without its first line
SyncingFromServerUnset(c) == c
\* applyDiagramData: this.isSyncingFromServer = true
SyncingFromServer(c) == [c EXCEPT !.isSyncingFromServer = TRUE]

\* applyDiagramData(data) by the client c: setSessionMetadata when the data
\* names a session, State.fromJSON of its elements and canvas size (with
\* the listeners of the 'elementsChange' it emits), expandCanvasToFitElements
\* once more, and the flag down. applied notes the data whose elements the
\* State took
ApplyDiagramData(c, data) ==
    LET valid == ValidateJSON(Doc(data.elements))
        loaded == MapOf(data.elements)
        emits == valid /\ ~CloneThrows(loaded)
        size == ExpandCanvasToFitElements(data.canvasSize, loaded)
        named == [session EXCEPT !.sessionId =
                     IF data.sessionId # <<>> THEN data.sessionId ELSE @]
        flagged == SyncingFromServer(c)
        after == IF emits THEN OnElementsChange(flagged, loaded, size) ELSE flagged
    IN /\ mcpClient' = [after EXCEPT !.isSyncingFromServer = FALSE,
                                     !.applied = IF valid THEN <<data>> ELSE @]
       /\ IF valid
          THEN /\ elements' = loaded
               /\ canvasSize' = size
               /\ selectedIds' = {}
               /\ SaveToHistory(loaded)
               /\ session' = [(IF emits THEN ScheduleSaveOnChange(named, loaded)
                               ELSE named) EXCEPT !.origin = named.sessionId]
          ELSE /\ canvasSize' = ExpandCanvasToFitElements(canvasSize, elements)
               /\ session' = named
               /\ UNCHANGED <<elements, selectedIds, undoStack, redoStack>>

\* what an action of this part leaves alone besides the State, the client,
\* the server and the session
linkRest == <<diagram, idCounter, now, reply, route, clipboard, stateIdCounter,
              heap, dragState>>

\* ws.onmessage with the message that arrives first; ignored says that it
\* returned at its first line
OnMessage ==
    /\ mcpClient.ws = "open" /\ mcpClient.inbox # <<>>
    /\ \E message \in {Head(mcpClient.inbox)} :
       \E c \in {[mcpClient EXCEPT !.inbox = Tail(@)]} :
         /\ outcome' = [op |-> "onmessage", success |-> TRUE, type |-> message.type,
                        ignored |-> c.isSyncingToServer]
         /\ IF c.isSyncingToServer
            THEN /\ mcpClient' = c
                 /\ UNCHANGED <<elements, selectedIds, canvasSize, undoStack, redoStack,
                                session>>
            ELSE CASE message.type = "loadingStart" ->
                        /\ mcpClient' = [c EXCEPT !.isAILoading = TRUE,
                                                  !.pendingDiagram = <<>>]
                        /\ UNCHANGED <<elements, selectedIds, canvasSize, undoStack,
                                       redoStack, session>>
                   [] message.type = "loadingEnd" ->
                        IF c.pendingDiagram # <<>>
                        THEN ApplyDiagramData([c EXCEPT !.pendingDiagram = <<>>,
                                                        !.isAILoading = FALSE],
                                              c.pendingDiagram[1])
                        ELSE /\ mcpClient' = [c EXCEPT !.isAILoading = FALSE]
                             /\ UNCHANGED <<elements, selectedIds, canvasSize, undoStack,
                                            redoStack, session>>
                   [] message.type = "diagram" ->
                        IF c.isAILoading
                        THEN /\ mcpClient' = [c EXCEPT !.pendingDiagram = <<message.data>>]
                             /\ UNCHANGED <<elements, selectedIds, canvasSize, undoStack,
                                            redoStack, session>>
                        ELSE ApplyDiagramData(c, message.data)
    /\ UNCHANGED <<linkRest, wsServer>>

\* an edit in the editor while MCPClient and SessionManager listen:
\* State.updateElement(id, {x: 300}) on the first element
EditElement ==
    /\ Len(elements) > 0
    /\ \E changed \in {MapSet(elements, Assign(elements[1],
                          IF elements[1].type = "arrow" THEN [style |-> "dashed"]
                          ELSE [x |-> 300]))} :
         /\ elements' = changed
         /\ mcpClient' = OnElementsChange(mcpClient, changed, canvasSize)
         /\ session' = ScheduleSaveOnChange(session, changed)
    /\ outcome' = Outcome("updateElement", TRUE)
    /\ UNCHANGED <<linkRest, wsServer, selectedIds, canvasSize, undoStack, redoStack>>

\* the end of syncToServer's fetch: the server has put the body in its
\* diagram, or the request has failed; finally isSyncingToServer = false
SyncDone ==
    /\ mcpClient.requests # <<>>
    /\ mcpClient' = [mcpClient EXCEPT !.requests = Tail(@), !.isSyncingToServer = FALSE]
    /\ \E answered \in BOOLEAN :
         diagram' = IF answered THEN Head(mcpClient.requests) ELSE diagram
    /\ outcome' = Outcome("syncToServer", TRUE)
    /\ UNCHANGED <<idCounter, now, reply, route, elements, selectedIds, canvasSize,
                   clipboard, undoStack, redoStack, stateIdCounter, heap, dragState,
                   wsServer, session>>

\* MCPClient.ws.onclose: whether a reconnect is scheduled
CanReconnectAlways(c) == TRUE
\* ws.onclose: if (this.reconnectAttempts < this.maxReconnectAttempts)
CanReconnect(c) == c.reconnectAttempts < maxReconnectAttempts

\* the diagrams the tools of the server leave
LinkDiagrams ==
    {[elements |-> <<EarlierA>>, canvasSize |-> DefaultCanvas],
     [elements |-> <<EarlierA, EarlierB>>, canvasSize |-> DefaultCanvas]}

\* the editor's socket opens: wss.on('connection') adds it, resets the timer
\* and sends the diagram; ws.onopen sets reconnectAttempts to 0
BrowserOpen ==
    /\ mcpClient.ws = "connecting" /\ wsServer.wss
    /\ "browser" \notin wsServer.wsClients \cup wsServer.late
    /\ mcpClient.sends < MaxSends
    /\ \E data \in {DiagramData(diagram, wsServer.currentSessionId)} :
         mcpClient' = [mcpClient EXCEPT !.ws = "open", !.reconnectAttempts = 0,
                                        !.inbox = <<DiagramMessage(data)>>,
                                        !.sends = @ + 1, !.sent = <<data>>]
    /\ wsServer' = ResetAutoShutdownTimer([wsServer EXCEPT !.wsClients = @ \cup {"browser"}])
    /\ outcome' = Outcome("onopen", TRUE)
    /\ UNCHANGED <<linkRest, elements, selectedIds, canvasSize, undoStack, redoStack, session>>

\* the editor's socket closes, open or not yet open: ws.onclose on the
\* editor's side, ws.on('close') on the server's
BrowserClose ==
    /\ mcpClient.ws \in {"connecting", "open"}
    /\ mcpClient' = [mcpClient EXCEPT
           !.ws = "null", !.inbox = <<>>, !.bracket = "none",
           !.reconnectAttempts = IF CanReconnect(mcpClient) THEN @ + 1 ELSE @,
           !.reconnectTimers = IF CanReconnect(mcpClient) THEN @ + 1 ELSE @]
    /\ wsServer' = [wsServer EXCEPT !.wsClients = @ \ {"browser"}, !.late = @ \ {"browser"}]
    /\ outcome' = [op |-> "onclose", success |-> TRUE, attempts |-> mcpClient.reconnectAttempts]
    /\ UNCHANGED <<linkRest, elements, selectedIds, canvasSize, undoStack, redoStack, session>>

\* the timeout of onclose fires: connectWebSocket posts /api/ws-start, which
\* reaches the server or not, and makes a new WebSocket
ConnectWebSocket ==
    /\ mcpClient.reconnectTimers > 0 /\ mcpClient.ws = "null"
    /\ mcpClient' = [mcpClient EXCEPT !.reconnectTimers = @ - 1, !.ws = "connecting"]
    /\ \E reached \in BOOLEAN :
         wsServer' = IF reached THEN StartWebSocketServer(wsServer) ELSE wsServer
    /\ outcome' = Outcome("connectWebSocket", TRUE)
    /\ UNCHANGED <<linkRest, elements, selectedIds, canvasSize, undoStack, redoStack, session>>

\* the socket of another program connects
OtherConnection ==
    /\ wsServer.wss /\ "other" \notin wsServer.wsClients \cup wsServer.late
    /\ wsServer' = ResetAutoShutdownTimer([wsServer EXCEPT !.wsClients = @ \cup {"other"}])
    /\ outcome' = Outcome("connection", TRUE)
    /\ UNCHANGED <<linkRest, elements, selectedIds, canvasSize, undoStack, redoStack,
                   session, mcpClient>>

\* ws.on('message') of a socket whose handlers are bound: one in wsClients,
\* or one that stopWebSocketServer has called close() on and that has not
\* closed yet. The editor sends no messages
OtherMessage ==
    /\ "other" \in wsServer.wsClients \cup wsServer.late
    /\ wsServer' = ResetAutoShutdownTimer(wsServer)
    /\ outcome' = Outcome("message", TRUE)
    /\ UNCHANGED <<linkRest, elements, selectedIds, canvasSize, undoStack, redoStack,
                   session, mcpClient>>

\* ws.on('close') of the other socket
OtherClose ==
    /\ "other" \in wsServer.wsClients \cup wsServer.late
    /\ wsServer' = [wsServer EXCEPT !.wsClients = @ \ {"other"}, !.late = @ \ {"other"}]
    /\ outcome' = Outcome("close", TRUE)
    /\ UNCHANGED <<linkRest, elements, selectedIds, canvasSize, undoStack, redoStack,
                   session, mcpClient>>

\* POST /api/ws-start from any program
StartRequest ==
    /\ wsServer' = StartWebSocketServer(wsServer)
    /\ outcome' = [op |-> "ws-start", success |-> TRUE, running |-> wsServer.wss]
    /\ UNCHANGED <<linkRest, elements, selectedIds, canvasSize, undoStack, redoStack,
                   session, mcpClient>>

\* notifyClients after a tool has changed the diagram
NotifyClients ==
    /\ mcpClient.sends < MaxSends
    /\ \E d \in LinkDiagrams \ {diagram} :
       \E data \in {DiagramData(d, wsServer.currentSessionId)} :
       \E started \in {StartWebSocketServer(wsServer)} :
         /\ diagram' = d
         /\ wsServer' = IF wsServer.wss THEN ResetAutoShutdownTimer(wsServer)
                        ELSE ResetAutoShutdownTimer(started)
         /\ mcpClient' = [Send(mcpClient, wsServer, <<DiagramMessage(data)>>)
                             EXCEPT !.sends = @ + 1,
                                    !.sent = IF "browser" \in wsServer.wsClients
                                             THEN <<data>> ELSE @]
    /\ outcome' = Outcome("notifyClients", TRUE)
    /\ UNCHANGED <<idCounter, now, reply, route, clipboard, stateIdCounter, heap, dragState,
                   elements, selectedIds, canvasSize, undoStack, redoStack, session>>

\* build_diagram: notifyLoadingStart, the new diagram, notifyClients and
\* notifyLoadingEnd, in one turn of the server
BuildWithLoading ==
    /\ mcpClient.sends < MaxSends
    /\ \E d \in LinkDiagrams \ {diagram} :
       \E data \in {DiagramData(d, wsServer.currentSessionId)} :
       \E started \in {StartWebSocketServer(wsServer)} :
         /\ diagram' = d
         /\ wsServer' = IF wsServer.wss
                        THEN ResetAutoShutdownTimer(ResetAutoShutdownTimer(wsServer))
                        ELSE ResetAutoShutdownTimer(ResetAutoShutdownTimer(started))
         /\ mcpClient' = [Send(mcpClient, wsServer,
                               <<LoadingStart, DiagramMessage(data), LoadingEnd>>)
                             EXCEPT !.sends = @ + 1,
                                    !.sent = IF "browser" \in wsServer.wsClients
                                             THEN <<data>> ELSE @,
                                    !.bracket = IF "browser" \in wsServer.wsClients
                                                THEN "end" ELSE @]
    /\ outcome' = Outcome("build_diagram", TRUE)
    /\ UNCHANGED <<idCounter, now, reply, route, clipboard, stateIdCounter, heap, dragState,
                   elements, selectedIds, canvasSize, undoStack, redoStack, session>>

\* the timeout of resetAutoShutdownTimer fires
AutoShutdown ==
    /\ wsServer.timers > 0
    /\ wsServer' = StopWebSocketServer(wsServer)
    /\ outcome' = Outcome("autoShutdown", TRUE)
    /\ UNCHANGED <<linkRest, elements, selectedIds, canvasSize, undoStack, redoStack,
                   session, mcpClient>>

\* main() of index.ts has started the WebSocket server; main.ts of the
\* editor has made the State, SessionManager and MCPClient and has called
\* connectSSE
LinkInit ==
    /\ ServerStart /\ EditorStart
    /\ route = NoRoute /\ heap = NoHeap /\ dragState = NoDrag
    /\ wsServer = StartWebSocketServer(NoWsServer)
    /\ mcpClient = [NoClient EXCEPT !.ws = "connecting"]
    /\ session = NoSession

LinkNext ==
    \/ BrowserOpen
    \/ BrowserClose
    \/ ConnectWebSocket
    \/ OnMessage
    \/ EditElement
    \/ SyncDone
    \/ OtherConnection
    \/ OtherMessage
    \/ OtherClose
    \/ StartRequest
    \/ NotifyClients
    \/ BuildWithLoading
    \/ AutoShutdown

SpecLink == LinkInit /\ [][LinkNext]_vars

\* the event loop hands over every message that has arrived, and every
\* fetch ends
SpecLinkFair == SpecLink /\ WF_vars(OnMessage) /\ WF_vars(SyncDone)


\* the message ws.onmessage is about to take
Arriving == Head(mcpClient.inbox)
\* a step of ws.onmessage
Receives(type) == outcome'.op = "onmessage" /\ outcome'.type = type
\* the State took the elements of the data in this step
Applies(data) ==
    /\ mcpClient'.applied = <<data>>
    /\ elements' = MapOf(data.elements)
    /\ Len(undoStack') = Len(undoStack) + 1
\* the State is as it was
AppliesNothing == UNCHANGED <<elements, selectedIds, canvasSize, undoStack, redoStack>>

\* C32: while isAILoading a diagram message is not applied and becomes the
\* pending one; loadingEnd applies the pending diagram once, if there is
\* one, clears it and ends the loading; a diagram message that arrives
\* while not loading is applied at once
LoadingGate ==
    [][/\ (Receives("diagram") /\ mcpClient.isAILoading)
            => (AppliesNothing /\ mcpClient'.pendingDiagram = <<Arriving.data>>)
       /\ (Receives("diagram") /\ ~mcpClient.isAILoading) => Applies(Arriving.data)
       /\ Receives("loadingEnd")
            => /\ ~mcpClient'.isAILoading /\ mcpClient'.pendingDiagram = <<>>
               /\ IF mcpClient.pendingDiagram # <<>>
                  THEN Applies(mcpClient.pendingDiagram[1]) ELSE AppliesNothing]_vars

\* C33: no step of ws.onmessage, applyDiagramData included, adds a request
\* of syncToServer or leaves isSyncingFromServer up, and never is more than
\* one request of syncToServer without its answer
NoEcho ==
    [][/\ Len(mcpClient'.requests) <= 1
       /\ outcome'.op = "onmessage"
            => /\ mcpClient'.requests = mcpClient.requests
               /\ mcpClient'.isSyncingToServer = mcpClient.isSyncingToServer
               /\ ~mcpClient'.isSyncingFromServer]_vars

\* a diagram of the server has been applied, its 'elementsChange' emitted,
\* and no request is on its way
AppliedWithoutEcho ==
    /\ outcome.op = "onmessage" /\ outcome.type = "diagram" /\ ~outcome.ignored
    /\ mcpClient.applied = mcpClient.sent /\ mcpClient.applied # <<>>
    /\ elements = MapOf(mcpClient.applied[1].elements) /\ Len(elements) > 0
    /\ mcpClient.requests = <<>> /\ ~mcpClient.isSyncingToServer

\* the editor's socket is open at both ends
ConnectionOpen == mcpClient.ws = "open" /\ "browser" \in wsServer.wsClients

\* C34: once the server has sent loadingStart and then loadingEnd, and
\* unless the connection closes, the client comes to a state where it is
\* not loading and the last diagram the server sent is the one applied
LoadingAlwaysEnds ==
    (mcpClient.bracket = "end")
       ~> (\/ ~ConnectionOpen
           \/ ~mcpClient.isAILoading /\ mcpClient.applied = mcpClient.sent)

\* C35: reconnectAttempts never exceeds 5; a reconnect is scheduled only by
\* onclose with fewer than 5 attempts, which counts one more; onclose at 5
\* schedules nothing; onopen sets the count to 0 and nothing else lowers it
BoundedReconnection ==
    [][/\ mcpClient'.reconnectAttempts <= maxReconnectAttempts
       /\ mcpClient'.reconnectTimers > mcpClient.reconnectTimers
            => /\ outcome'.op = "onclose"
               /\ mcpClient.reconnectAttempts < maxReconnectAttempts
               /\ mcpClient'.reconnectAttempts = mcpClient.reconnectAttempts + 1
               /\ mcpClient'.reconnectTimers = mcpClient.reconnectTimers + 1
       /\ (outcome'.op = "onclose" /\ outcome'.attempts = maxReconnectAttempts)
            => UNCHANGED <<mcpClient.reconnectTimers, mcpClient.reconnectAttempts>>
       /\ outcome'.op = "onopen" => mcpClient'.reconnectAttempts = 0
       /\ mcpClient'.reconnectAttempts < mcpClient.reconnectAttempts
            => outcome'.op = "onopen"]_vars

\* the socket has closed for the fifth time in a row and the sixth close
\* has scheduled nothing
GaveUpReconnecting ==
    /\ outcome.op = "onclose" /\ outcome.attempts = maxReconnectAttempts
    /\ mcpClient.reconnectAttempts = maxReconnectAttempts
    /\ mcpClient.reconnectTimers = 0 /\ mcpClient.ws = "null"

\* C36: at most one WebSocket server and at most one armed timer; a timer
\* is armed while the server runs; while it is stopped no timer is armed and
\* wsClients is empty
ServerLifecycle ==
    /\ wsServer.instances <= 1 /\ wsServer.timers <= 1
    /\ wsServer.wss => (wsServer.autoShutdownTimer /\ wsServer.timers = 1)
    /\ ~wsServer.wss => /\ ~wsServer.autoShutdownTimer /\ wsServer.timers = 0
                        /\ wsServer.wsClients = {}

-----------------------------------------------------------------------------
(* Sessions: SessionManager, the diagrams of the server and the edits      *)

MaxCreates == 1

\* the diagrams the server sends
MaxDiagrams == 1

\* the ids generateSessionId gives, in the order of the calls
NewSessionIds == <<"n1", "n2", "n3">>

\* an element POST /api/elements has added from a body without a type
Untyped == Without(Component(MkId("el", 1, -1), 300, 300, 100, 80), "type")

\* the sessions saved before: s1 holds the first component, s2 the second
StoredSessions ==
    [id \in {"s1", "s2"} |->
        [elements |-> IF id = "s1" THEN <<EarlierA>> ELSE <<EarlierB>>,
         canvasSize |-> DefaultCanvas, origin |-> <<id>>]]

\* the diagrams the server sends: one that State.validateJSON accepts and
\* one that it refuses, with the server's current session or none
SessionDatas ==
    {DiagramData([elements |-> els, canvasSize |-> DefaultCanvas], sid) :
        els \in {<<EarlierB>>, <<Untyped>>},
        sid \in {<<>>, <<"s2">>}}

\* a tool or a request has changed the server's diagram or session, and
\* notifyClientsWithSession sends it
SessionSend ==
    /\ mcpClient.sends < MaxDiagrams
    /\ \E data \in SessionDatas :
         /\ diagram' = [elements |-> data.elements, canvasSize |-> data.canvasSize]
         /\ wsServer' = ResetAutoShutdownTimer(
                            [wsServer EXCEPT !.currentSessionId = data.sessionId])
         /\ mcpClient' = [Send(mcpClient, wsServer, <<DiagramMessage(data)>>)
                             EXCEPT !.sends = @ + 1, !.sent = <<data>>]
    /\ outcome' = Outcome("notifyClients", TRUE)
    /\ UNCHANGED <<idCounter, now, reply, route, clipboard, stateIdCounter, heap, dragState,
                   elements, selectedIds, canvasSize, undoStack, redoStack, session>>

\* saveCurrentSession with a session: toSessionJSON goes to the cache and
\* to PUT /api/sessions/:id under State.sessionId
SavedSession(sess, els, size) ==
    [sess EXCEPT !.store =
        (sess.sessionId[1] :> [elements |-> els, canvasSize |-> size,
                               origin |-> sess.origin]) @@ @]

\* clearForNewSession, with the listeners of its 'elementsChange'
ClearForNewSession(sess) ==
    /\ elements' = <<>>
    /\ selectedIds' = {}
    /\ canvasSize' = DefaultCanvas
    /\ undoStack' = << <<>> >>
    /\ redoStack' = <<>>
    /\ mcpClient' = OnElementsChange(mcpClient, <<>>, DefaultCanvas)
    /\ session' = [sess EXCEPT !.sessionId = <<>>, !.origin = <<>>,
                               !.created = @ + 1,
                               !.pending = <<[op |-> "create",
                                              id |-> NewSessionIds[sess.created + 1]]>>]

\* createNewSession up to its first await: with a session that has elements
\* it cancels the scheduled save and awaits saveCurrentSession, without one
\* it clears the State and posts the new session
CreateNewSessionFrom(sess) ==
    IF sess.sessionId # <<>> /\ Len(elements) > 0
    THEN /\ session' = [SavedSession(sess, elements, canvasSize)
                           EXCEPT !.saveDebounceTimer = FALSE,
                                  !.pending = <<[op |-> "saving"]>>]
         /\ UNCHANGED <<elements, selectedIds, canvasSize, undoStack, redoStack, mcpClient>>
    ELSE ClearForNewSession(sess)

\* saveCurrentSession: without a session it calls createNewSession
SaveCurrentSession(sess) ==
    IF sess.sessionId = <<>>
    THEN CreateNewSessionFrom(sess)
    ELSE /\ session' = SavedSession(sess, elements, canvasSize)
         /\ UNCHANGED <<elements, selectedIds, canvasSize, undoStack, redoStack, mcpClient>>

CanCreate == session.created < MaxCreates

\* the timeout of scheduleSave fires
DebounceFires ==
    /\ session.saveDebounceTimer
    /\ session.sessionId # <<>> \/ (CanCreate /\ session.pending = <<>>)
    /\ SaveCurrentSession([session EXCEPT !.saveDebounceTimer = FALSE])
    /\ outcome' = Outcome("SessionManager", TRUE)
    /\ UNCHANGED <<linkRest, wsServer>>

\* the interval of startAutoSaveInterval fires
IntervalFires ==
    /\ session.sessionId # <<>> /\ Len(elements) > 0
    /\ SaveCurrentSession(session)
    /\ outcome' = Outcome("SessionManager", TRUE)
    /\ UNCHANGED <<linkRest, wsServer>>

\* the user asks for a new session
CreateNewSession ==
    /\ session.pending = <<>> /\ CanCreate
    /\ CreateNewSessionFrom(session)
    /\ outcome' = Outcome("SessionManager", TRUE)
    /\ UNCHANGED <<linkRest, wsServer>>

\* createNewSession after await saveCurrentSession
CreateAfterSave ==
    /\ session.pending = <<[op |-> "saving"]>>
    /\ ClearForNewSession(session)
    /\ outcome' = Outcome("SessionManager", TRUE)
    /\ UNCHANGED <<linkRest, wsServer>>

\* createNewSession after its POST: the new session goes to the cache with
\* no elements, and setSessionMetadata gives the State its id
CreateAfterPost ==
    /\ session.pending # <<>> /\ session.pending[1].op = "create"
    /\ \E id \in {session.pending[1].id} :
         session' = [session EXCEPT
             !.pending = <<>>, !.sessionId = <<id>>,
             !.store = (id :> [elements |-> <<>>, canvasSize |-> DefaultCanvas,
                               origin |-> <<id>>]) @@ @]
    /\ outcome' = Outcome("SessionManager", TRUE)
    /\ UNCHANGED <<linkRest, wsServer, mcpClient, elements, selectedIds, canvasSize,
                   undoStack, redoStack>>

\* loadSession(id) up to its fetch, for a session other than the current
LoadSession ==
    /\ session.pending = <<>> /\ CanSave
    /\ \E id \in {"s1", "s2"} \ Range(session.sessionId) :
         session' = [session EXCEPT !.saveDebounceTimer = FALSE,
                                    !.pending = <<[op |-> "load", id |-> id]>>]
    /\ outcome' = Outcome("SessionManager", TRUE)
    /\ UNCHANGED <<linkRest, wsServer, mcpClient, elements, selectedIds, canvasSize,
                   undoStack, redoStack>>

\* loadSession after its fetch: a session that is not found returns false;
\* State.fromSessionData of the one found, with the listeners of its
\* 'elementsChange', and PUT /api/session/current
LoadAfterFetch ==
    /\ session.pending # <<>> /\ session.pending[1].op = "load"
    /\ \E id \in {session.pending[1].id} :
         IF id \notin DOMAIN session.store
         THEN /\ session' = [session EXCEPT !.pending = <<>>]
              /\ outcome' = Outcome("SessionManager", FALSE)
              /\ UNCHANGED <<elements, selectedIds, canvasSize, undoStack, redoStack,
                             mcpClient, wsServer>>
         ELSE \E found \in {session.store[id]} :
              \E size \in {ExpandCanvasToFitElements(found.canvasSize, found.elements)} :
                /\ elements' = found.elements
                /\ selectedIds' = {}
                /\ canvasSize' = size
                /\ SaveToHistory(found.elements)
                /\ mcpClient' = IF CloneThrows(found.elements) THEN mcpClient
                                ELSE OnElementsChange(mcpClient, found.elements, size)
                /\ session' = [ScheduleSaveOnChange(
                                   [session EXCEPT !.sessionId = <<id>>], found.elements)
                                 EXCEPT !.origin = found.origin, !.pending = <<>>]
                /\ wsServer' = [wsServer EXCEPT !.currentSessionId = <<id>>]
                /\ outcome' = Outcome("SessionManager", TRUE)
    /\ UNCHANGED linkRest

\* deleteSession(id) of the current session up to its fetch: the session
\* leaves the cache
DeleteSession ==
    /\ session.pending = <<>> /\ CanCreate
    /\ \E id \in DOMAIN session.store \cap Range(session.sessionId) :
         session' = [session EXCEPT
             !.store = [k \in DOMAIN session.store \ {id} |-> session.store[k]],
             !.pending = <<[op |-> "delete", id |-> id]>>]
    /\ outcome' = Outcome("SessionManager", TRUE)
    /\ UNCHANGED <<linkRest, wsServer, mcpClient, elements, selectedIds, canvasSize,
                   undoStack, redoStack>>

\* deleteSession after its fetch: createNewSession when the session deleted
\* is the current one
DeleteAfterFetch ==
    /\ session.pending # <<>> /\ session.pending[1].op = "delete"
    /\ IF session.sessionId = <<session.pending[1].id>> /\ CanCreate
       THEN CreateNewSessionFrom([session EXCEPT !.pending = <<>>])
       ELSE /\ session' = [session EXCEPT !.pending = <<>>]
            /\ UNCHANGED <<elements, selectedIds, canvasSize, undoStack, redoStack, mcpClient>>
    /\ outcome' = Outcome("SessionManager", TRUE)
    /\ UNCHANGED <<linkRest, wsServer>>

\* the editor with the session s1 loaded, its socket open, the server
\* running with that session current
SessionsInit ==
    /\ diagram = [elements |-> <<EarlierA>>, canvasSize |-> DefaultCanvas]
    /\ idCounter = 0 /\ now = 0 /\ reply = NoReply
    /\ route = NoRoute /\ heap = NoHeap /\ dragState = NoDrag
    /\ elements = <<EarlierA>>
    /\ undoStack = << <<>>, <<EarlierA>> >>
    /\ selectedIds = {} /\ canvasSize = DefaultCanvas /\ clipboard = <<>>
    /\ redoStack = <<>> /\ stateIdCounter = 0 /\ outcome = NoOutcome
    /\ wsServer = [StartWebSocketServer(NoWsServer) EXCEPT
                      !.wsClients = {"browser"}, !.currentSessionId = <<"s1">>]
    /\ mcpClient = [NoClient EXCEPT !.ws = "open"]
    /\ session = [NoSession EXCEPT !.sessionId = <<"s1">>, !.origin = <<"s1">>,
                                   !.store = StoredSessions]

SessionsNext ==
    \/ SessionSend
    \/ OnMessage
    \/ EditElement
    \/ SyncDone
    \/ DebounceFires
    \/ IntervalFires
    \/ CreateNewSession
    \/ CreateAfterSave
    \/ CreateAfterPost
    \/ LoadSession
    \/ LoadAfterFetch
    \/ DeleteSession
    \/ DeleteAfterFetch

SpecSessions == SessionsInit /\ [][SessionsNext]_vars

\* the elements the State holds came from the session that is current
HoldsOwnElements ==
    (Len(elements) > 0 /\ session.sessionId # <<>> /\ session.origin # <<>>)
       => session.origin = session.sessionId
\* what is saved under an id came from the session of that id
SavesOwnElements ==
    \A id \in DOMAIN session.store :
       (session.store[id].elements # <<>> /\ session.store[id].origin # <<>>)
          => session.store[id].origin = <<id>>

\* C39: the editor never holds the elements of one session under the id of
\* another, and every save writes under an id elements that were loaded or
\* received while that id was the current session
SessionsNeverMixed == HoldsOwnElements /\ SavesOwnElements

====
